---------------------------- MODULE Spec2Model ----------------------------
(***************************************************************************)
(* A model of the Chamber front end for ABC notation: the mode-sensitive   *)
(* lexer, the diagnostic-emitting recursive-descent parser, the trivia     *)
(* attaching tokenizer, the lossless (CST) parser, the CST printer and the *)
(* formatter.                                                              *)
(*                                                                         *)
(* A source text is a sequence of one-character strings (ASCII, so every   *)
(* character is one byte and a byte offset is a character index).  Offsets *)
(* are 0-based as in the code; the character at offset p is src[p + 1].    *)
(* Every function of the code is an operator computed the way the code     *)
(* computes it; the parser's mutable state (token position, diagnostics,   *)
(* abort flag) is threaded through the operators as a record.              *)
(***************************************************************************)
EXTENDS Integers, Sequences, FiniteSets, TLC

VARIABLES
    source,     \* the immutable input text of the calls
    build,      \* "debug" | "release": the build profile (overflow checks)
    done,       \* the entry points that have returned on this source
    tokens,     \* what Lexer::tokenize returned
    outcome,    \* what parse_with_diagnostics returned, or that it panicked
    cstTokens,  \* what tokenize_cst returned
    cst,        \* what parse_cst returned
    printed,    \* what print_cst returned
    config,     \* the FormatterConfig of the format calls
    formatted,  \* what format(source, config) returned
    reformatted, \* what format(formatted, config) returned
    projected,  \* what cst_to_ast returned on cst, or that it panicked
    bag,        \* a DiagnosticBag: diagnostics, error_count, warning_count
    reported,   \* the severities reported to the bag since its last clear
    ranges,     \* two TextRange values, a and b
    overlap     \* what ranges.a.intersect(ranges.b) returned

vars ==
    <<source, build, done, tokens, outcome, cstTokens, cst, printed, config,
      formatted, reformatted, projected, bag, reported, ranges, overlap>>

-----------------------------------------------------------------------------
(* Bounds of the model *)

\* longest music body enumerated
MaxLen == 4
\* longest source enumerated for the lexer alone
MaxLexLen == 4
\* most header lines and most body elements of an assembled tune
MaxLines == 3
MaxElements == 2
\* longest written duration
MaxDur == 4
\* most pieces of a text handed to the formatter
MaxPieces == 3
\* most octave marks written after one note
MaxMarks == 130

\* the largest offset of the ranges
MaxOffset == 4

\* the largest number of diagnostics in a bag
MaxReports == 3

-----------------------------------------------------------------------------
(* Sequencing.  The code is a sequence of `let` bindings and statements on *)
(* a mutable parser; here each step names its result for the steps after   *)
(* it: With([x \in {e} |-> body]) is the body with x standing for e.       *)

With(f) == f[CHOOSE x \in DOMAIN f : TRUE]

-----------------------------------------------------------------------------
(* Character classes of Lexer::next_token *)

NoChar == ""

WsChars == {" ", "\t"}
DigitChars == {"0", "1", "2", "3", "4", "5", "6", "7", "8", "9"}
UpperNoteChars == {"C", "D", "E", "F", "G", "A", "B"}
LowerNoteChars == {"c", "d", "e", "f", "g", "a", "b"}
RestChars == {"z", "Z"}
FieldOnlyChars == {"H", "I", "K", "L", "M", "N", "O", "P", "Q", "R", "S", "T",
                   "U", "V", "W", "X", "Y"}
LineEndChars == {"\n", "\r"}

MinOf(S) == CHOOSE x \in S : \A y \in S : x <= y

\* Option<char> at offset pos: the character, or NoChar at the end of the text
Peek(src, pos) == IF pos < Len(src) THEN src[pos + 1] ELSE NoChar

\* the offset reached by advancing from pos while the character is in S
SkipWhile(src, pos, S) ==
    MinOf({q \in pos..Len(src) : q = Len(src) \/ src[q + 1] \notin S})

\* the offset reached by advancing from pos until a character of Stop
ScanUntil(src, pos, Stop) ==
    MinOf({q \in pos..Len(src) : q = Len(src) \/ src[q + 1] \in Stop})

SkipWs(src, pos) == SkipWhile(src, pos, WsChars)

has_colon_ahead(src, pos) ==
    LET q == SkipWs(src, pos)
    IN  Peek(src, q) = ":" /\ Peek(src, q + 1) # "|"

has_digit_ahead(src, pos) == Peek(src, SkipWs(src, pos)) \in DigitChars

has_bar_ahead(src, pos) == Peek(src, SkipWs(src, pos)) = "|"

has_colon_ahead_for_repeat(src, pos) == Peek(src, SkipWs(src, pos)) = ":"

\* the result of lexing one token: its kind, the position after it, the mode
Lexed(kind, pos, hdr) == [kind |-> kind, pos |-> pos, hdr |-> hdr]

whitespace(src, pos, hdr) == Lexed("Whitespace", SkipWs(src, pos), hdr)

comment(src, pos, hdr) ==
    Lexed("Comment", ScanUntil(src, pos, LineEndChars), hdr)

bar_line(src, pos, hdr) ==
    IF has_colon_ahead_for_repeat(src, pos)
    THEN Lexed("RepeatStart", SkipWs(src, pos) + 1, hdr)
    ELSE IF Peek(src, pos) = "|" THEN Lexed("DoubleBar", pos + 1, hdr)
    ELSE IF Peek(src, pos) = "]" THEN Lexed("ThinThickBar", pos + 1, hdr)
    ELSE Lexed("Bar", pos, hdr)

text(src, pos, hdr) ==
    LET q == ScanUntil(src, pos, {"\n", "\r", "%", "]"})
    IN  Lexed("Text", q, IF Peek(src, q) = "]" THEN FALSE ELSE hdr)

decoration(src, pos, hdr, delimiter) ==
    LET q == ScanUntil(src, pos, {delimiter, "\n", "\r"})
    IN  IF Peek(src, q) = delimiter
        THEN Lexed("Decoration", q + 1, hdr)
        ELSE Lexed("Error", q, hdr)

annotation(src, pos, hdr) ==
    LET q == ScanUntil(src, pos, {"\"", "\n", "\r"})
    IN  IF Peek(src, q) = "\""
        THEN Lexed("Annotation", q + 1, hdr)
        ELSE Lexed("Error", q, hdr)

\* the match on the first character c of a token; pos is the offset after c
LexChar(src, c, pos, hdr) ==
    CASE c \in WsChars -> whitespace(src, pos, hdr)
      [] c = "\n" -> Lexed("Newline", pos, FALSE)
      [] c = "\r" ->
            Lexed("Newline", IF Peek(src, pos) = "\n" THEN pos + 1 ELSE pos, FALSE)
      [] c = "%" -> comment(src, pos, hdr)
      [] c = "\\" -> Lexed("LineContinuation", pos, hdr)
      [] c = ":" ->
            IF has_bar_ahead(src, pos)
            THEN Lexed("RepeatEnd", SkipWs(src, pos) + 1, hdr)
            ELSE Lexed("Colon", pos, TRUE)
      [] c = "|" -> bar_line(src, pos, hdr)
      [] c = "[" ->
            IF Peek(src, pos) = "|"
            THEN Lexed("ThickThinBar", pos + 1, hdr)
            ELSE Lexed("LeftBracket", pos, hdr)
      [] c = "]" -> Lexed("RightBracket", pos, hdr)
      [] c = "(" ->
            IF has_digit_ahead(src, pos)
            THEN Lexed("Tuplet", SkipWhile(src, SkipWs(src, pos), DigitChars), hdr)
            ELSE Lexed("LeftParen", pos, hdr)
      [] c = ")" -> Lexed("RightParen", pos, hdr)
      [] c = "{" -> Lexed("LeftBrace", pos, hdr)
      [] c = "}" -> Lexed("RightBrace", pos, hdr)
      [] c = "^" -> Lexed("Sharp", pos, hdr)
      [] c = "=" -> Lexed("Natural", pos, hdr)
      [] c = "_" -> Lexed("Flat", pos, hdr)
      [] c = "'" -> Lexed("OctaveUp", pos, hdr)
      [] c = "," -> Lexed("OctaveDown", pos, hdr)
      [] c = "-" -> Lexed("Tie", pos, hdr)
      [] c \in {"<", ">"} -> Lexed("BrokenRhythm", SkipWhile(src, pos, {c}), hdr)
      [] c = "/" -> Lexed("Slash", pos, hdr)
      [] c \in DigitChars ->
            IF hdr THEN text(src, pos, hdr)
            ELSE Lexed("NoteLength", SkipWhile(src, pos, DigitChars), hdr)
      [] c \in UpperNoteChars ->
            IF hdr THEN text(src, pos, hdr)
            ELSE IF has_colon_ahead(src, pos) THEN Lexed("FieldLabel", pos, hdr)
            ELSE Lexed("Note", pos, hdr)
      [] c \in LowerNoteChars ->
            IF hdr THEN text(src, pos, hdr) ELSE Lexed("Note", pos, hdr)
      [] c \in RestChars ->
            IF hdr THEN text(src, pos, hdr) ELSE Lexed("Rest", pos, hdr)
      [] c \in FieldOnlyChars ->
            IF hdr THEN text(src, pos, hdr)
            ELSE IF has_colon_ahead(src, pos) THEN Lexed("FieldLabel", pos, hdr)
            ELSE text(src, pos, hdr)
      [] c \in {"!", "+"} ->
            IF hdr THEN text(src, pos, hdr) ELSE decoration(src, pos, hdr, c)
      [] c = "\"" ->
            IF hdr THEN text(src, pos, hdr) ELSE annotation(src, pos, hdr)
      [] OTHER ->
            IF hdr THEN text(src, pos, hdr) ELSE Lexed("Error", pos, hdr)

\* Token::new(kind, TextRange::new(start, end))
TokenNew(kind, start, end) == [kind |-> kind, start |-> start, end |-> end]

\* self.advance(): the position after the character at pos
\* a lexer whose advance() leaves the position where it is
advance_char_stuck(pos) == pos

advance_char(pos) == pos + 1

\* the lexer state after one call of next_token, with the token returned
next_token(src, pos, hdr) ==
    IF pos >= Len(src)
    THEN [tok |-> TokenNew("Eof", pos, pos), pos |-> pos, hdr |-> hdr]
    ELSE LET r == LexChar(src, src[pos + 1], advance_char(pos), hdr)
         IN  [tok |-> TokenNew(r.kind, pos, r.pos), pos |-> r.pos, hdr |-> r.hdr]

\* Lexer::new, with the empty token vector of tokenize
LexerNew == [pos |-> 0, hdr |-> FALSE, toks |-> <<>>, eof |-> FALSE]

\* one round of the loop of tokenize: next_token, push, stop after Eof
LexStep(src, s) ==
    IF s.eof THEN s
    ELSE With([r \in {next_token(src, s.pos, s.hdr)} |->
             [pos |-> r.pos, hdr |-> r.hdr, toks |-> Append(s.toks, r.tok),
              eof |-> r.tok.kind = "Eof"] ])

RECURSIVE TokenizeFrom(_, _, _)
\* k rounds of the loop, split in halves to keep the evaluation shallow
TokenizeFrom(src, s, k) ==
    IF k = 0 THEN s
    ELSE IF k = 1 THEN LexStep(src, s)
    ELSE With([m \in {TokenizeFrom(src, s, k \div 2)} |->
             TokenizeFrom(src, m, k - (k \div 2)) ])

\* Lexer::new(source).tokenize(): a token takes at least one character, so the
\* loop ends within Len(src) + 1 rounds
tokenize(src) == TokenizeFrom(src, LexerNew, Len(src) + 1).toks


-----------------------------------------------------------------------------
(* Strings of the source: slices, trimming, integer parsing *)

\* &source[a..b]
Slice(src, a, b) == SubSeq(src, a + 1, b)

\* char::is_whitespace restricted to ASCII
TrimChars == {" ", "\t", "\n", "\r"}

\* str::trim
Trim(s) ==
    LET keep == {i \in 1..Len(s) : s[i] \notin TrimChars}
    IN  IF keep = {} THEN <<>>
        ELSE SubSeq(s, MinOf(keep), CHOOSE i \in keep : \A j \in keep : j <= i)

DigitValue(c) ==
    CASE c = "0" -> 0 [] c = "1" -> 1 [] c = "2" -> 2 [] c = "3" -> 3
      [] c = "4" -> 4 [] c = "5" -> 5 [] c = "6" -> 6 [] c = "7" -> 7
      [] c = "8" -> 8 [] c = "9" -> 9

\* u32::MAX = 4294967295, as its decimal digits
U32MaxDigits == <<"4", "2", "9", "4", "9", "6", "7", "2", "9", "5">>

ParseErr == -1

\* the digit string a is greater than the digit string b of the same length
DigitsGreater(a, b) ==
    \E i \in 1..Len(a) :
        /\ DigitValue(a[i]) > DigitValue(b[i])
        /\ \A j \in 1..(i - 1) : a[j] = b[j]

RECURSIVE DigitsValue(_, _)
DigitsValue(s, acc) ==
    IF s = <<>> THEN acc ELSE DigitsValue(Tail(s), acc * 10 + DigitValue(Head(s)))

\* the value of a digit string, ParseErr when it exceeds u32::MAX
ParseDigits(s) ==
    LET sig == SubSeq(s, SkipWhile(s, 0, {"0"}) + 1, Len(s))
    IN  IF Len(sig) > Len(U32MaxDigits)
           \/ (Len(sig) = Len(U32MaxDigits) /\ DigitsGreater(sig, U32MaxDigits))
        THEN ParseErr
        ELSE DigitsValue(sig, 0)

\* str::parse::<u32>: an optional '+', then one or more digits, within u32
ParseU32(s) ==
    LET body == IF s # <<>> /\ Head(s) = "+" THEN Tail(s) ELSE s
    IN  IF body = <<>> \/ \E i \in 1..Len(body) : body[i] \notin DigitChars
        THEN ParseErr
        ELSE ParseDigits(body)

-----------------------------------------------------------------------------
(* Diagnostics *)

NoLabel == <<>>

Diag(code, severity, start, end, label) ==
    [code |-> code, severity |-> severity, start |-> start, end |-> end,
     label |-> label]

\* Diagnostic::error(code, range, message)
DiagError(code, start, end) == Diag(code, "error", start, end, NoLabel)

\* Diagnostic::warning(code, range, message)
DiagWarning(code, start, end) == Diag(code, "warning", start, end, NoLabel)

\* Diagnostic::with_label(range, message)
\* a diagnostic that keeps no label
with_label_dropped(d, start, end) == d

with_label(d, start, end) ==
    [d EXCEPT !.label = <<[start |-> start, end |-> end]>>]

-----------------------------------------------------------------------------
(* Parser: navigation.  cx = [src, toks] is the immutable part of the      *)
(* Parser struct; st = [pos, diags, panicked, iters] is its mutable part.  *)

NoKind == "None"

ParserNew(src) == [src |-> src, toks |-> tokenize(src)]

StateNew == [pos |-> 0, diags |-> <<>>, panicked |-> FALSE, iters |-> <<>>]

\* self.peek().map(|t| t.kind)
PeekKind(cx, st) ==
    IF st.pos < Len(cx.toks) THEN cx.toks[st.pos + 1].kind ELSE NoKind

check(cx, st, kind) == PeekKind(cx, st) = kind

advance(cx, st) ==
    IF st.pos < Len(cx.toks) THEN [st EXCEPT !.pos = @ + 1] ELSE st

current_position(cx, st) ==
    IF st.pos < Len(cx.toks) THEN cx.toks[st.pos + 1].start
    ELSE IF cx.toks # <<>> THEN cx.toks[Len(cx.toks)].end
    ELSE 0

is_at_end(cx, st) == st.pos >= Len(cx.toks) \/ check(cx, st, "Eof")

\* TokenKind::is_trivia
is_trivia(kind) == kind \in {"Whitespace", "Comment", "Newline"}

\* SyntaxKind::is_bar_line
is_bar_line(kind) ==
    kind \in {"Bar", "DoubleBar", "RepeatStart", "RepeatEnd", "ThinThickBar",
              "ThickThinBar"}

RecoveryKinds == {"Bar", "DoubleBar", "RepeatStart", "RepeatEnd", "Newline", "Eof"}

is_recovery_point(cx, st) == PeekKind(cx, st) \in RecoveryKinds

\* the token index reached by advancing while the token's kind is in K
SkipKinds(cx, st, K) ==
    [st EXCEPT !.pos =
        MinOf({q \in st.pos..Len(cx.toks) :
                 q = Len(cx.toks) \/ cx.toks[q + 1].kind \notin K})]

skip_trivia(cx, st) == SkipKinds(cx, st, {"Whitespace", "Comment", "Newline"})

skip_whitespace_only(cx, st) == SkipKinds(cx, st, {"Whitespace"})

skip_newlines(cx, st) == SkipKinds(cx, st, {"Newline"})

report(st, d) == [st EXCEPT !.diags = Append(@, d)]

\* a loop iteration that went round again: the position before and after it
LogIter(st, loop, before) ==
    [st EXCEPT !.iters = Append(@, [loop |-> loop, before |-> before,
                                    after |-> st.pos])]

RECURSIVE handle_error_tokens(_, _)
handle_error_tokens(cx, st) ==
    IF check(cx, st, "Error")
    THEN LET tok == cx.toks[st.pos + 1]
         IN  handle_error_tokens(cx,
                 report(advance(cx, st),
                        DiagError("UnexpectedCharacter", tok.start, tok.end)))
    ELSE st

\* the text collected by collect_until_newline, and the state after it
collect_until_newline(cx, st) ==
    LET s2 == [st EXCEPT !.pos =
                 MinOf({q \in st.pos..Len(cx.toks) :
                          q = Len(cx.toks)
                          \/ cx.toks[q + 1].kind \in {"Newline", "Eof", "Comment"}})]
    IN  [st |-> s2,
         val |-> Trim(Slice(cx.src, current_position(cx, st),
                            current_position(cx, s2)))]

-----------------------------------------------------------------------------
(* Parser: notes, durations, rests, bar lines *)

None == [some |-> FALSE]
Some(v) == [some |-> TRUE, val |-> v]

\* the result of a parse function: the state after it and Option<value>
Ret(st, opt) == [st |-> st, opt |-> opt]

\* Pitch::from_char
PitchFromChar(c) ==
    CASE c = "C" -> Some([pitch |-> "C", octave |-> 0])
      [] c = "D" -> Some([pitch |-> "D", octave |-> 0])
      [] c = "E" -> Some([pitch |-> "E", octave |-> 0])
      [] c = "F" -> Some([pitch |-> "F", octave |-> 0])
      [] c = "G" -> Some([pitch |-> "G", octave |-> 0])
      [] c = "A" -> Some([pitch |-> "A", octave |-> 0])
      [] c = "B" -> Some([pitch |-> "B", octave |-> 0])
      [] c = "c" -> Some([pitch |-> "C", octave |-> 1])
      [] c = "d" -> Some([pitch |-> "D", octave |-> 1])
      [] c = "e" -> Some([pitch |-> "E", octave |-> 1])
      [] c = "f" -> Some([pitch |-> "F", octave |-> 1])
      [] c = "g" -> Some([pitch |-> "G", octave |-> 1])
      [] c = "a" -> Some([pitch |-> "A", octave |-> 1])
      [] c = "b" -> Some([pitch |-> "B", octave |-> 1])
      [] OTHER -> None

parse_accidental(cx, st) ==
    CASE check(cx, st, "Sharp") ->
            With([s1 \in {advance(cx, st)} |->
                IF check(cx, s1, "Sharp")
                THEN Ret(advance(cx, s1), Some("DoubleSharp"))
                ELSE Ret(s1, Some("Sharp")) ])
      [] check(cx, st, "Flat") ->
            With([s1 \in {advance(cx, st)} |->
                IF check(cx, s1, "Flat")
                THEN Ret(advance(cx, s1), Some("DoubleFlat"))
                ELSE Ret(s1, Some("Flat")) ])
      [] check(cx, st, "Natural") -> Ret(advance(cx, st), Some("Natural"))
      [] OTHER -> Ret(st, None)

I8Min == -128
I8Max == 127

\* an i8 result: in range as is; out of range the addition panics when
\* overflow checks are on and wraps when they are off
I8Wrap(v) == ((v - I8Min) % (I8Max - I8Min + 1)) + I8Min

OctaveKindsAst == {"OctaveUp", "OctaveDown"}

\* how many tokens the octave loop of parse_note consumes: the run of octave
\* modifiers at the current position
MarkRun(cx, st) ==
    MinOf({i \in (st.pos + 1)..(Len(cx.toks) + 1) :
             i > Len(cx.toks) \/ cx.toks[i].kind \notin OctaveKindsAst})
        - st.pos - 1

\* the octave after j rounds of the loop, before any wrapping
OctaveAfter(cx, st, octave, j) ==
    octave + Cardinality({i \in 1..j : cx.toks[st.pos + i].kind = "OctaveUp"})
           - Cardinality({i \in 1..j : cx.toks[st.pos + i].kind = "OctaveDown"})

\* the loop over octave modifiers of parse_note: octave += 1 / octave -= 1 and
\* advance, once per modifier; the first round that leaves the i8 range panics
\* when overflow checks are on
OctaveMarks(cx, st, octave, checked) ==
    LET n == MarkRun(cx, st)
        over == \E j \in 1..n :
                    \/ OctaveAfter(cx, st, octave, j) < I8Min
                    \/ OctaveAfter(cx, st, octave, j) > I8Max
    IN  [st |-> [st EXCEPT !.pos = @ + n, !.panicked = @ \/ (over /\ checked)],
         octave |-> I8Wrap(OctaveAfter(cx, st, octave, n))]

SuspiciousLimit == 16

\* no note_start: parse_duration_internal(None)
NoStart == -1

\* Duration::default(): what a note without a stored duration lasts
DurationDefault == [numerator |-> 1, denominator |-> 1]

\* the denominator a zero denominator is left with
DenominatorZeroKept(hasSlash, hasDen, d) ==
    IF ~hasSlash THEN 1 ELSE IF ~hasDen THEN 2 ELSE IF d = ParseErr THEN 1 ELSE d

\* the denominator when a lone slash counts as /1
DenominatorSlashOne(hasSlash, hasDen, d) ==
    IF ~hasSlash \/ ~hasDen \/ d = ParseErr \/ d = 0 THEN 1 ELSE d

\* the denominator of parse_duration_internal: 1 without a slash, 2 after a
\* lone slash, 1 for a number that does not parse or is zero, else the number
Denominator(hasSlash, hasDen, d) ==
    IF ~hasSlash THEN 1
    ELSE IF ~hasDen THEN 2
    ELSE IF d = ParseErr \/ d = 0 THEN 1
    ELSE d

\* a limit that only a longer duration passes
is_suspicious_strict(numerator, denominator) ==
    numerator > SuspiciousLimit * denominator

\* numerator as f64 / denominator as f64 >= 16.0, exact for u32 operands
is_suspicious(numerator, denominator) ==
    numerator >= SuspiciousLimit * denominator

parse_duration_internal(cx, st, note_start) ==
    LET dur_start == current_position(cx, st)
        hasNum == check(cx, st, "NoteLength")
        numTok == cx.toks[st.pos + 1]
        n == IF hasNum THEN ParseU32(Slice(cx.src, numTok.start, numTok.end))
             ELSE ParseErr
    IN  With([s1 \in {IF hasNum THEN advance(cx, st) ELSE st} |->
    LET numerator == IF n # ParseErr THEN n ELSE 1
        hasSlash == check(cx, s1, "Slash")
    IN  With([s2 \in {IF hasSlash THEN advance(cx, s1) ELSE s1} |->
    LET hasDen == hasSlash /\ check(cx, s2, "NoteLength")
        denTok == cx.toks[s2.pos + 1]
        d == IF hasDen THEN ParseU32(Slice(cx.src, denTok.start, denTok.end))
             ELSE ParseErr
    IN  With([s3 \in {IF hasDen THEN advance(cx, s2) ELSE s2} |->
    With([s4 \in {IF hasDen /\ d = 0
              THEN report(s3, DiagError("InvalidDuration", dur_start,
                                        current_position(cx, s3)))
              ELSE s3} |->
    LET denominator == Denominator(hasSlash, hasDen, d)
        has_duration == n # ParseErr \/ hasSlash
    IN  With([s5 \in {IF has_duration /\ is_suspicious(numerator, denominator)
              THEN report(s4, DiagWarning("SuspiciousDuration",
                                 IF note_start # NoStart THEN note_start
                                 ELSE dur_start,
                                 current_position(cx, s4)))
              ELSE s4} |->
        IF has_duration
        THEN Ret(s5, Some([numerator |-> numerator, denominator |-> denominator]))
        ELSE Ret(s5, None) ]) ]) ]) ]) ])

parse_duration(cx, st) == parse_duration_internal(cx, st, NoStart)

parse_duration_with_validation(cx, st, note_start) ==
    parse_duration_internal(cx, st, note_start)

UnusualHigh == 3
UnusualLow == -2

parse_note(cx, st, checked) ==
    LET start == current_position(cx, st)
    IN  With([acc \in {parse_accidental(cx, st)} |->
        IF acc.st.pos >= Len(cx.toks) THEN Ret(acc.st, None)
        ELSE
        LET tok == cx.toks[acc.st.pos + 1]
            pb == PitchFromChar(cx.src[tok.start + 1])
        IN  With([s1 \in {advance(cx, acc.st)} |->
            IF tok.kind # "Note" THEN Ret(s1, None)
            ELSE IF ~pb.some
            THEN Ret(report(s1, DiagError("InvalidNoteName", tok.start, tok.end)),
                     None)
            ELSE
            With([om \in {OctaveMarks(cx, s1, pb.val.octave, checked)} |->
            With([s2 \in {IF om.octave > UnusualHigh \/ om.octave < UnusualLow
                          THEN report(om.st,
                                      DiagWarning("UnusualOctave", start,
                                                  current_position(cx, om.st)))
                          ELSE om.st} |->
            With([dur \in {parse_duration_with_validation(cx, s2, start)} |->
                Ret(dur.st, Some([type |-> "Note", pitch |-> pb.val.pitch,
                                  octave |-> om.octave, accidental |-> acc.opt,
                                  duration |-> dur.opt, start |-> start,
                                  end |-> current_position(cx, dur.st)])) ]) ]) ]) ]) ])

parse_rest(cx, st) ==
    IF st.pos >= Len(cx.toks) THEN Ret(st, None)
    ELSE
    LET start == current_position(cx, st)
        tok == cx.toks[st.pos + 1]
    IN  With([s1 \in {advance(cx, st)} |->
        IF tok.kind # "Rest" THEN Ret(s1, None)
        ELSE
        With([dur \in {parse_duration(cx, s1)} |->
            Ret(dur.st,
                Some([type |-> "Rest",
                      multi_measure |-> (Slice(cx.src, tok.start, tok.end) = <<"Z">>),
                      duration |-> dur.opt, start |-> start,
                      end |-> current_position(cx, dur.st)])) ]) ])

BarLineKindOf(kind) ==
    CASE kind = "Bar" -> "Single"
      [] kind = "DoubleBar" -> "Double"
      [] kind = "RepeatStart" -> "RepeatStart"
      [] kind = "RepeatEnd" -> "RepeatEnd"
      [] kind = "ThinThickBar" -> "ThinThick"
      [] kind = "ThickThinBar" -> "ThickThin"
      [] OTHER -> NoKind

parse_bar_line(cx, st) ==
    IF st.pos >= Len(cx.toks) THEN Ret(st, None)
    ELSE
    LET tok == cx.toks[st.pos + 1]
    IN  With([s1 \in {advance(cx, st)} |->
        IF BarLineKindOf(tok.kind) = NoKind THEN Ret(s1, None)
        ELSE Ret(s1, Some([type |-> "BarLine", kind |-> BarLineKindOf(tok.kind),
                           start |-> tok.start, end |-> tok.end])) ])

parse_broken_rhythm(cx, st) ==
    IF st.pos >= Len(cx.toks) THEN Ret(st, None)
    ELSE
    LET tok == cx.toks[st.pos + 1]
    IN  With([s1 \in {advance(cx, st)} |->
        IF tok.kind # "BrokenRhythm" THEN Ret(s1, None)
        ELSE Ret(s1, Some([type |-> "BrokenRhythm",
                           dotted_first |-> (cx.src[tok.start + 1] = ">"),
                           count |-> tok.end - tok.start,
                           start |-> tok.start, end |-> tok.end])) ])

parse_tie(cx, st) ==
    IF st.pos >= Len(cx.toks) THEN Ret(st, None)
    ELSE
    LET tok == cx.toks[st.pos + 1]
    IN  With([s1 \in {advance(cx, st)} |->
        IF tok.kind # "Tie" THEN Ret(s1, None)
        ELSE Ret(s1, Some([type |-> "Tie", start |-> tok.start, end |-> tok.end])) ])

-----------------------------------------------------------------------------
(* Parser: bracketed constructs.  Each `while` loop of the code is a       *)
(* recursive operator; one unfolding is one iteration.  An iteration that  *)
(* goes round again is logged; if it left the position where it was the    *)
(* code would spin forever, and the unfolding stops there.                 *)

\* the result of a loop: the state after it and the items collected
LoopRet(st, items) == [st |-> st, items |-> items]

RECURSIVE ChordLoop(_, _, _, _)
\* parse_chord: while !is_at_end() && !check(RightBracket) { ... }
ChordLoop(cx, st, notes, checked) ==
    IF is_at_end(cx, st) \/ check(cx, st, "RightBracket") THEN LoopRet(st, notes)
    ELSE IF check(cx, st, "Error")
    THEN With([s1 \in {LogIter(handle_error_tokens(cx, st), "chord", st.pos)} |->
             IF s1.pos <= st.pos THEN LoopRet(s1, notes)
             ELSE ChordLoop(cx, s1, notes, checked) ])
    ELSE IF is_recovery_point(cx, st) THEN LoopRet(st, notes)
    ELSE IF check(cx, st, "LeftParen") \/ check(cx, st, "LeftBrace")
    THEN LoopRet(st, notes)
    ELSE With([r \in {parse_note(cx, st, checked)} |->
         With([s1 \in {LogIter(IF r.opt.some THEN r.st ELSE advance(cx, r.st),
                           "chord", st.pos)} |->
         LET ns == IF r.opt.some THEN Append(notes, r.opt.val) ELSE notes
         IN  IF s1.pos <= st.pos THEN LoopRet(s1, ns)
             ELSE ChordLoop(cx, s1, ns, checked) ]) ])

parse_chord(cx, st, checked) ==
    IF st.pos >= Len(cx.toks) \/ ~check(cx, st, "LeftBracket") THEN Ret(st, None)
    ELSE
    LET start == current_position(cx, st)
        open == cx.toks[st.pos + 1]
    IN  With([lp \in {ChordLoop(cx, advance(cx, st), <<>>, checked)} |->
        LET closed == check(cx, lp.st, "RightBracket")
        IN  With([s1 \in {IF closed THEN advance(cx, lp.st)
                          ELSE report(lp.st,
                                 with_label(DiagError("UnclosedChord", start,
                                                current_position(cx, lp.st)),
                                            open.start, open.end))} |->
            With([s2 \in {IF lp.items = <<>> /\ closed
                          THEN report(s1, DiagWarning("EmptyChord", start,
                                                      current_position(cx, s1)))
                          ELSE s1} |->
            With([dur \in {parse_duration(cx, s2)} |->
                Ret(dur.st, Some([type |-> "Chord", notes |-> lp.items,
                                  duration |-> dur.opt, start |-> start,
                                  end |-> current_position(cx, dur.st)])) ]) ]) ]) ])

is_inline_field(cx, st) ==
    /\ check(cx, st, "LeftBracket")
    /\ check(cx, skip_whitespace_only(cx, advance(cx, st)), "FieldLabel")

RECURSIVE InlineValueLoop(_, _)
\* parse_inline_field: while !is_at_end() && !check(RightBracket) { ... }
InlineValueLoop(cx, st) ==
    IF is_at_end(cx, st) \/ check(cx, st, "RightBracket") THEN st
    ELSE IF is_recovery_point(cx, st) THEN st
    ELSE With([s1 \in {LogIter(advance(cx, st), "inline", st.pos)} |->
             IF s1.pos <= st.pos THEN s1 ELSE InlineValueLoop(cx, s1) ])

parse_inline_field(cx, st) ==
    IF st.pos >= Len(cx.toks) \/ ~check(cx, st, "LeftBracket") THEN Ret(st, None)
    ELSE
    LET start == current_position(cx, st)
        open == cx.toks[st.pos + 1]
    IN  With([s1 \in {skip_whitespace_only(cx, advance(cx, st))} |->
        IF s1.pos >= Len(cx.toks) THEN Ret(s1, None)
        ELSE
        LET label_token == cx.toks[s1.pos + 1]
        IN  With([s2 \in {advance(cx, s1)} |->
            IF label_token.kind # "FieldLabel" THEN Ret(s2, None)
            ELSE
            With([s3 \in {skip_whitespace_only(cx, s2)} |->
            IF ~check(cx, s3, "Colon") THEN Ret(s3, None)
            ELSE
            With([s4 \in {advance(cx, s3)} |->
            With([s5 \in {InlineValueLoop(cx, s4)} |->
            With([s6 \in {IF check(cx, s5, "RightBracket") THEN advance(cx, s5)
                          ELSE report(s5,
                                 with_label(DiagError("UnclosedInlineField", start,
                                                current_position(cx, s5)),
                                            open.start, open.end))} |->
                Ret(s6, Some([type |-> "InlineField",
                              label |-> cx.src[label_token.start + 1],
                              value |-> Trim(Slice(cx.src, current_position(cx, s4),
                                                   current_position(cx, s5))),
                              start |-> start,
                              end |-> current_position(cx, s6)])) ]) ]) ]) ]) ]) ])

DefaultRatio == 3

RECURSIVE TupletLoop(_, _, _, _, _)
\* parse_tuplet: for _ in 0..ratio { ... }
TupletLoop(cx, st, notes, left, checked) ==
    IF left = 0 THEN LoopRet(st, notes)
    ELSE With([r \in {parse_note(cx, handle_error_tokens(cx, skip_trivia(cx, st)),
                             checked)} |->
             IF ~r.opt.some THEN LoopRet(r.st, notes)
             ELSE With([s1 \in {LogIter(r.st, "tuplet", st.pos)} |->
                      IF s1.pos <= st.pos THEN LoopRet(s1, Append(notes, r.opt.val))
                      ELSE TupletLoop(cx, s1, Append(notes, r.opt.val), left - 1,
                                      checked) ]) ])

parse_tuplet(cx, st, checked) ==
    IF st.pos >= Len(cx.toks) THEN Ret(st, None)
    ELSE
    LET start == current_position(cx, st)
        tok == cx.toks[st.pos + 1]
        parsed == ParseU32(Slice(cx.src, tok.start + 1, tok.end))
        ratio == IF parsed = ParseErr THEN DefaultRatio ELSE parsed
    IN  With([s1 \in {advance(cx, st)} |->
        IF tok.kind # "Tuplet" THEN Ret(s1, None)
        ELSE
        With([lp \in {TupletLoop(cx, s1, <<>>, ratio, checked)} |->
        With([s2 \in {IF Len(lp.items) < ratio /\ lp.items # <<>>
                      THEN report(lp.st, DiagWarning("TupletNoteMismatch", start,
                                                     current_position(cx, lp.st)))
                      ELSE lp.st} |->
        With([s3 \in {IF lp.items = <<>>
                      THEN report(s2, DiagWarning("EmptyTuplet", start,
                                                  current_position(cx, s2)))
                      ELSE s2} |->
            Ret(s3, Some([type |-> "Tuplet", ratio |-> ratio, notes |-> lp.items,
                          start |-> start,
                          end |-> current_position(cx, s3)])) ]) ]) ]) ])

RECURSIVE GraceLoop(_, _, _, _)
\* parse_grace_notes: while !is_at_end() && !check(RightBrace) { ... }
GraceLoop(cx, st, notes, checked) ==
    IF is_at_end(cx, st) \/ check(cx, st, "RightBrace") THEN LoopRet(st, notes)
    ELSE With([s0 \in {handle_error_tokens(cx, st)} |->
             IF is_recovery_point(cx, s0) THEN LoopRet(s0, notes)
             ELSE IF PeekKind(cx, s0) \in {"LeftBracket", "LeftParen", "LeftBrace"}
             THEN LoopRet(s0, notes)
             ELSE With([r \in {parse_note(cx, s0, checked)} |->
                  With([s1 \in {LogIter(IF r.opt.some THEN r.st ELSE advance(cx, r.st),
                                    "grace", st.pos)} |->
                  LET ns == IF r.opt.some THEN Append(notes, r.opt.val) ELSE notes
                  IN  IF s1.pos <= st.pos THEN LoopRet(s1, ns)
                      ELSE GraceLoop(cx, s1, ns, checked) ]) ]) ])

parse_grace_notes(cx, st, checked) ==
    IF st.pos >= Len(cx.toks) \/ ~check(cx, st, "LeftBrace") THEN Ret(st, None)
    ELSE
    LET start == current_position(cx, st)
        open == cx.toks[st.pos + 1]
    IN  With([lp \in {GraceLoop(cx, advance(cx, st), <<>>, checked)} |->
        With([s1 \in {IF check(cx, lp.st, "RightBrace") THEN advance(cx, lp.st)
                      ELSE report(lp.st,
                             with_label(DiagError("UnclosedGraceNotes", start,
                                            current_position(cx, lp.st)),
                                        open.start, open.end))} |->
            Ret(s1, Some([type |-> "GraceNotes", notes |-> lp.items,
                          start |-> start,
                          end |-> current_position(cx, s1)])) ]) ])

RECURSIVE parse_music_element(_, _, _)
RECURSIVE parse_slur(_, _, _)
RECURSIVE SlurLoop(_, _, _, _)

\* parse_slur: while !is_at_end() && !check(RightParen) { ... }
SlurLoop(cx, st, elements, checked) ==
    IF is_at_end(cx, st) \/ check(cx, st, "RightParen") THEN LoopRet(st, elements)
    ELSE With([s0 \in {handle_error_tokens(cx, st)} |->
             IF is_recovery_point(cx, s0) THEN LoopRet(s0, elements)
             ELSE With([r \in {parse_music_element(cx, s0, checked)} |->
                  LET rs == r.st
                      tok == cx.toks[rs.pos + 1]
                  IN  With([sk \in {IF r.opt.some THEN rs
                            ELSE IF check(cx, rs, "RightBracket")
                            THEN report(advance(cx, rs),
                                        DiagError("UnexpectedClosingBracket",
                                                  tok.start, tok.end))
                            ELSE IF check(cx, rs, "RightBrace")
                            THEN report(advance(cx, rs),
                                        DiagError("UnexpectedClosingBrace",
                                                  tok.start, tok.end))
                            ELSE advance(cx, rs)} |->
                  With([s1 \in {LogIter(sk, "slur", st.pos)} |->
                  LET es == IF r.opt.some THEN Append(elements, r.opt.val)
                            ELSE elements
                  IN  IF s1.pos <= st.pos THEN LoopRet(s1, es)
                      ELSE SlurLoop(cx, s1, es, checked) ]) ]) ]) ])

parse_slur(cx, st, checked) ==
    IF st.pos >= Len(cx.toks) \/ ~check(cx, st, "LeftParen") THEN Ret(st, None)
    ELSE
    LET start == current_position(cx, st)
        open == cx.toks[st.pos + 1]
    IN  With([lp \in {SlurLoop(cx, advance(cx, st), <<>>, checked)} |->
        With([s1 \in {IF check(cx, lp.st, "RightParen") THEN advance(cx, lp.st)
                      ELSE report(lp.st,
                             with_label(DiagError("UnclosedSlur", start,
                                            current_position(cx, lp.st)),
                                        open.start, open.end))} |->
            Ret(s1, Some([type |-> "Slur", elements |-> lp.items,
                          start |-> start,
                          end |-> current_position(cx, s1)])) ]) ])

parse_music_element(cx, st0, checked) ==
    With([st \in {skip_trivia(cx, st0)} |->
    LET kind == PeekKind(cx, st)
    IN  CASE kind \in {"Sharp", "Flat", "Natural", "Note"} ->
                parse_note(cx, st, checked)
          [] kind = "Rest" -> parse_rest(cx, st)
          [] is_bar_line(kind) -> parse_bar_line(cx, st)
          [] kind = "LeftBracket" ->
                IF is_inline_field(cx, st) THEN parse_inline_field(cx, st)
                ELSE parse_chord(cx, st, checked)
          [] kind = "Tuplet" -> parse_tuplet(cx, st, checked)
          [] kind = "LeftParen" -> parse_slur(cx, st, checked)
          [] kind = "LeftBrace" -> parse_grace_notes(cx, st, checked)
          [] kind = "BrokenRhythm" -> parse_broken_rhythm(cx, st)
          [] kind = "Tie" -> parse_tie(cx, st)
          [] OTHER -> Ret(st, None) ])

-----------------------------------------------------------------------------
(* Parser: body and header *)

RECURSIVE BodyLoop(_, _, _, _)
\* parse_body: while !is_at_end() { ... }
BodyLoop(cx, st, elements, checked) ==
    IF is_at_end(cx, st) THEN LoopRet(st, elements)
    ELSE With([s0 \in {handle_error_tokens(cx, skip_trivia(cx, st))} |->
         LET tok == cx.toks[s0.pos + 1]
         IN  With([body \in {
               CASE check(cx, s0, "FieldLabel") ->
                      With([s1 \in {skip_trivia(cx,
                                      report(advance(cx, s0),
                                             DiagWarning("UnexpectedToken",
                                                         tok.start, tok.end)))} |->
                          LoopRet(collect_until_newline(cx,
                                      IF check(cx, s1, "Colon")
                                      THEN advance(cx, s1) ELSE s1).st,
                                  elements) ])
                 [] check(cx, s0, "RightBracket") ->
                      LoopRet(report(advance(cx, s0),
                                     DiagError("UnexpectedClosingBracket",
                                               tok.start, tok.end)),
                              elements)
                 [] check(cx, s0, "RightParen") ->
                      LoopRet(report(advance(cx, s0),
                                     DiagError("UnexpectedClosingParen",
                                               tok.start, tok.end)),
                              elements)
                 [] check(cx, s0, "RightBrace") ->
                      LoopRet(report(advance(cx, s0),
                                     DiagError("UnexpectedClosingBrace",
                                               tok.start, tok.end)),
                              elements)
                 [] check(cx, s0, "Newline") -> LoopRet(advance(cx, s0), elements)
                 [] OTHER ->
                      With([r \in {parse_music_element(cx, s0, checked)} |->
                          IF r.opt.some
                          THEN LoopRet(r.st, Append(elements, r.opt.val))
                          ELSE IF ~is_at_end(cx, r.st) /\ ~check(cx, r.st, "Eof")
                          THEN LoopRet(advance(cx, r.st), elements)
                          ELSE LoopRet(r.st, elements) ])} |->
             IF is_at_end(cx, body.st) THEN body
             ELSE With([s2 \in {LogIter(body.st, "body", st.pos)} |->
                      IF s2.pos <= st.pos THEN LoopRet(s2, body.items)
                      ELSE BodyLoop(cx, s2, body.items, checked) ]) ]) ])

parse_body(cx, st, checked) ==
    LET start == current_position(cx, st)
    IN  With([lp \in {BodyLoop(cx, st, <<>>, checked)} |->
        [st |-> lp.st,
         val |-> [elements |-> lp.items, start |-> start,
                  end |-> current_position(cx, lp.st)]] ])

\* HeaderFieldKind::from_char
HeaderFieldKindOf(c) ==
    CASE c = "X" -> "ReferenceNumber"
      [] c = "T" -> "Title"
      [] c = "C" -> "Composer"
      [] c = "M" -> "Meter"
      [] c = "L" -> "UnitNoteLength"
      [] c = "Q" -> "Tempo"
      [] c = "K" -> "Key"
      [] OTHER -> "Other"

parse_header_field(cx, st) ==
    IF st.pos >= Len(cx.toks) THEN Ret(st, None)
    ELSE
    LET start == current_position(cx, st)
        label_token == cx.toks[st.pos + 1]
    IN  With([s1 \in {advance(cx, st)} |->
        IF label_token.kind # "FieldLabel" THEN Ret(s1, None)
        ELSE
        With([s2 \in {skip_trivia(cx, s1)} |->
        IF ~check(cx, s2, "Colon") THEN Ret(s2, None)
        ELSE
        With([cv \in {collect_until_newline(cx,
                          skip_whitespace_only(cx, advance(cx, s2)))} |->
        With([s3 \in {skip_newlines(cx, cv.st)} |->
            Ret(s3, Some([kind |-> HeaderFieldKindOf(cx.src[label_token.start + 1]),
                          value |-> cv.val, start |-> start,
                          end |-> current_position(cx, s3)])) ]) ]) ]) ])

RECURSIVE HeaderLoop(_, _, _)
\* parse_header: while !is_at_end() { ... }
HeaderLoop(cx, st, fields) ==
    IF is_at_end(cx, st) THEN LoopRet(st, fields)
    ELSE With([s0 \in {handle_error_tokens(cx, skip_trivia(cx, st))} |->
         IF ~check(cx, s0, "FieldLabel") THEN LoopRet(s0, fields)
         ELSE
         With([r \in {parse_header_field(cx, s0)} |->
         LET fs == IF r.opt.some THEN Append(fields, r.opt.val) ELSE fields
         IN  IF r.opt.some /\ r.opt.val.kind = "Key"
             THEN LoopRet(skip_newlines(cx, r.st), fs)
             ELSE With([s1 \in {LogIter(r.st, "header", st.pos)} |->
                      IF s1.pos <= st.pos THEN LoopRet(s1, fs)
                      ELSE HeaderLoop(cx, s1, fs) ]) ]) ])

parse_header(cx, st) ==
    LET start == current_position(cx, st)
    IN  With([lp \in {HeaderLoop(cx, st, <<>>)} |->
        [st |-> lp.st,
         val |-> [fields |-> lp.items, start |-> start,
                  end |-> current_position(cx, lp.st)]] ])

-----------------------------------------------------------------------------
(* Parser: header validation *)

\* the index of the first occurrence of c in s, 0 if there is none
FindChar(s, c) ==
    LET hits == {i \in 1..Len(s) : s[i] = c}
    IN  IF hits = {} THEN 0 ELSE MinOf(hits)

StartsWith(s, prefix) ==
    Len(prefix) <= Len(s) /\ SubSeq(s, 1, Len(prefix)) = prefix

UpperLetters == <<"A", "B", "C", "D", "E", "F", "G", "H", "I", "J", "K", "L", "M",
                  "N", "O", "P", "Q", "R", "S", "T", "U", "V", "W", "X", "Y", "Z">>
LowerLetters == <<"a", "b", "c", "d", "e", "f", "g", "h", "i", "j", "k", "l", "m",
                  "n", "o", "p", "q", "r", "s", "t", "u", "v", "w", "x", "y", "z">>

\* char::to_lowercase on ASCII
LowerChar(c) ==
    IF \E i \in 1..Len(UpperLetters) : UpperLetters[i] = c
    THEN LowerLetters[CHOOSE i \in 1..Len(UpperLetters) : UpperLetters[i] = c]
    ELSE c

ToLowercase(s) == [i \in 1..Len(s) |-> LowerChar(s[i])]

\* "n/d" with n a u32 and d a positive u32 (the fraction test of M:, L:, Q:)
FractionOk(num, denom) ==
    /\ ParseU32(Trim(num)) # ParseErr
    /\ ParseU32(Trim(denom)) # ParseErr
    /\ ParseU32(Trim(denom)) > 0

OneError(code, field) == <<DiagError(code, field.start, field.end)>>

validate_reference_number(field) ==
    LET value == Trim(field.value)
    IN  IF value = <<>> THEN OneError("EmptyReferenceNumber", field)
        ELSE IF ParseU32(value) = ParseErr
        THEN OneError("InvalidReferenceNumber", field)
        ELSE <<>>

validate_meter(field) ==
    LET value == Trim(field.value)
        slash == FindChar(value, "/")
    IN  IF value = <<>> THEN <<>>
        ELSE IF value \in {<<"C">>, <<"C", "|">>, <<"n", "o", "n", "e">>} THEN <<>>
        ELSE IF slash # 0
        THEN IF FractionOk(SubSeq(value, 1, slash - 1),
                           SubSeq(value, slash + 1, Len(value)))
             THEN <<>>
             ELSE OneError("InvalidMeterValue", field)
        ELSE OneError("InvalidMeterValue", field)

validate_tempo(field) ==
    LET trimmed == Trim(field.value)
        end_quote == FindChar(Tail(trimmed), "\"")
        value == IF trimmed # <<>> /\ Head(trimmed) = "\"" /\ end_quote # 0
                 THEN Trim(SubSeq(trimmed, end_quote + 2, Len(trimmed)))
                 ELSE trimmed
        eq == FindChar(value, "=")
        note_part == Trim(SubSeq(value, 1, eq - 1))
        bpm_part == Trim(SubSeq(value, eq + 1, Len(value)))
        slash == FindChar(note_part, "/")
    IN  IF trimmed = <<>> THEN <<>>
        ELSE IF value = <<>> THEN <<>>
        ELSE IF eq # 0
        THEN IF slash # 0
                /\ ~FractionOk(SubSeq(note_part, 1, slash - 1),
                               SubSeq(note_part, slash + 1, Len(note_part)))
             THEN OneError("InvalidTempo", field)
             ELSE IF slash = 0 /\ ParseU32(note_part) = ParseErr
             THEN OneError("InvalidTempo", field)
             ELSE IF ParseU32(bpm_part) = ParseErr
             THEN OneError("InvalidTempo", field)
             ELSE <<>>
        ELSE IF ParseU32(value) = ParseErr THEN OneError("InvalidTempo", field)
        ELSE <<>>

validate_unit_note_length(field) ==
    LET value == Trim(field.value)
        slash == FindChar(value, "/")
    IN  IF value = <<>> THEN <<>>
        ELSE IF slash # 0
        THEN IF FractionOk(SubSeq(value, 1, slash - 1),
                           SubSeq(value, slash + 1, Len(value)))
             THEN <<>>
             ELSE OneError("InvalidUnitNoteLength", field)
        ELSE OneError("InvalidUnitNoteLength", field)

ValidModes ==
    { <<"m">>, <<"m", "i", "n">>, <<"m", "i", "n", "o", "r">>,
      <<"m", "a", "j">>, <<"m", "a", "j", "o", "r">>,
      <<"m", "i", "x">>, <<"m", "i", "x", "o", "l", "y", "d", "i", "a", "n">>,
      <<"d", "o", "r">>, <<"d", "o", "r", "i", "a", "n">>,
      <<"p", "h", "r">>, <<"p", "h", "r", "y", "g", "i", "a", "n">>,
      <<"l", "y", "d">>, <<"l", "y", "d", "i", "a", "n">>,
      <<"l", "o", "c">>, <<"l", "o", "c", "r", "i", "a", "n">>,
      <<"e", "x", "p">> }

validate_key(field) ==
    LET value == Trim(field.value)
        rest == Tail(value)
        mode == ToLowercase(IF rest # <<>> /\ Head(rest) \in {"#", "b"}
                            THEN Tail(rest) ELSE rest)
    IN  IF value = <<>> THEN OneError("InvalidKeySignature", field)
        ELSE IF value \in {<<"n", "o", "n", "e">>, <<"H", "P">>, <<"H", "p">>}
        THEN <<>>
        ELSE IF Head(value) \notin UpperNoteChars
        THEN OneError("InvalidKeySignature", field)
        ELSE IF /\ mode # <<>>
                /\ ~\E m \in ValidModes : StartsWith(mode, m)
                /\ \E i \in 1..Len(mode) : mode[i] \notin TrimChars
        THEN OneError("InvalidKeySignature", field)
        ELSE <<>>

\* the match on field.kind in validate_header's loop over the fields
ValidateField(field) ==
    CASE field.kind = "ReferenceNumber" -> validate_reference_number(field)
      [] field.kind = "Title" ->
            IF Trim(field.value) = <<>>
            THEN <<DiagWarning("EmptyTitle", field.start, field.end)>>
            ELSE <<>>
      [] field.kind = "Meter" -> validate_meter(field)
      [] field.kind = "Tempo" -> validate_tempo(field)
      [] field.kind = "UnitNoteLength" -> validate_unit_note_length(field)
      [] field.kind = "Key" -> validate_key(field)
      [] OTHER -> <<>>

RECURSIVE ValidateFields(_)
ValidateFields(fields) ==
    IF fields = <<>> THEN <<>>
    ELSE ValidateField(Head(fields)) \o ValidateFields(Tail(fields))

\* the diagnostics validate_header reports, in order
\* a validation that looks at the values of the fields only, not their presence
validate_header_values_only(header) == ValidateFields(header.fields)

validate_header(header) ==
    LET fields == header.fields
        x_fields == SelectSeq(fields, LAMBDA f : f.kind = "ReferenceNumber")
        hasKey == \E i \in 1..Len(fields) : fields[i].kind = "Key"
        hasTitle == \E i \in 1..Len(fields) : fields[i].kind = "Title"
    IN  (IF x_fields = <<>>
         THEN <<DiagError("MissingReferenceNumber", header.start, header.end)>>
         ELSE <<>>)
        \o [i \in 1..(IF Len(x_fields) > 1 THEN Len(x_fields) - 1 ELSE 0) |->
              with_label(DiagError("DuplicateReferenceNumber",
                                   x_fields[i + 1].start, x_fields[i + 1].end),
                         x_fields[1].start, x_fields[1].end)]
        \o (IF ~hasKey
            THEN <<DiagError("MissingKeyField", header.start, header.end)>>
            ELSE <<>>)
        \o (IF ~hasTitle
            THEN <<DiagWarning("MissingTitle", header.start, header.end)>>
            ELSE <<>>)
        \o ValidateFields(fields)
        \o (IF fields # <<>> /\ fields[1].kind # "ReferenceNumber"
            THEN <<DiagWarning("InvalidFieldOrder", fields[1].start, fields[1].end)>>
            ELSE <<>>)

-----------------------------------------------------------------------------
(* Parser: the entry point *)

\* Parser::parse with a diagnostic sink: the tune, the diagnostics, the log
parse(cx, checked) ==
    With([s0 \in {handle_error_tokens(cx, StateNew)} |->
    LET start == current_position(cx, StateNew)
    IN  With([h \in {parse_header(cx, s0)} |->
    With([s1 \in {[h.st EXCEPT !.diags = @ \o validate_header(h.val)]} |->
    With([b \in {parse_body(cx, s1, checked)} |->
    LET end == current_position(cx, b.st)
    IN  With([s2 \in {IF h.val.fields = <<>> /\ b.val.elements = <<>>
              THEN report(b.st, DiagWarning("EmptyTune", start, end))
              ELSE b.st} |->
        [tune |-> [header |-> h.val, body |-> b.val, start |-> start, end |-> end],
         st |-> s2] ]) ]) ]) ]) ])

\* parse_with_diagnostics(source)
parse_with_diagnostics(src, checked) == parse(ParserNew(src), checked)

-----------------------------------------------------------------------------
(* Trivia attachment: raw tokens to CST tokens *)

\* TokenKind::to_syntax_kind
to_syntax_kind(kind) ==
    CASE kind = "Whitespace" -> "WHITESPACE"
      [] kind = "Newline" -> "NEWLINE"
      [] kind = "Comment" -> "COMMENT"
      [] kind = "LineContinuation" -> "LINE_CONTINUATION"
      [] kind = "FieldLabel" -> "FIELD_LABEL"
      [] kind = "Colon" -> "COLON"
      [] kind = "Note" -> "NOTE_NAME"
      [] kind = "Rest" -> "REST"
      [] kind = "OctaveUp" -> "OCTAVE_UP"
      [] kind = "OctaveDown" -> "OCTAVE_DOWN"
      [] kind = "NoteLength" -> "NUMBER"
      [] kind = "Sharp" -> "SHARP"
      [] kind = "Natural" -> "NATURAL"
      [] kind = "Flat" -> "FLAT"
      [] kind = "Bar" -> "BAR"
      [] kind = "DoubleBar" -> "DOUBLE_BAR"
      [] kind = "RepeatStart" -> "REPEAT_START"
      [] kind = "RepeatEnd" -> "REPEAT_END"
      [] kind = "ThinThickBar" -> "THIN_THICK_BAR"
      [] kind = "ThickThinBar" -> "THICK_THIN_BAR"
      [] kind = "LeftBracket" -> "L_BRACKET"
      [] kind = "RightBracket" -> "R_BRACKET"
      [] kind = "LeftParen" -> "L_PAREN"
      [] kind = "RightParen" -> "R_PAREN"
      [] kind = "LeftBrace" -> "L_BRACE"
      [] kind = "RightBrace" -> "R_BRACE"
      [] kind = "Tie" -> "TIE"
      [] kind = "BrokenRhythm" -> "BROKEN_RHYTHM"
      [] kind = "Tuplet" -> "TUPLET_MARKER"
      [] kind = "Decoration" -> "DECORATION"
      [] kind = "Text" -> "TEXT"
      [] kind = "Number" -> "NUMBER"
      [] kind = "Slash" -> "SLASH"
      [] kind = "Eof" -> "EOF"
      [] kind = "Error" -> "ERROR"

\* TokenKind::is_trivia
TokenKindIsTrivia(kind) == kind \in {"Whitespace", "Comment", "Newline"}

\* Trivia::new
TriviaNew(kind, start, end) == [kind |-> kind, start |-> start, end |-> end]

\* CstToken::with_trivia
with_trivia(kind, start, end, leading, trailing) ==
    [kind |-> kind, start |-> start, end |-> end,
     leading |-> leading, trailing |-> trailing]

\* attach_trivia, inner loop: the trailing trivia of the token before index j
\* (j is a 0-based index into toks); returns the trivia and the next index
RECURSIVE TrailingLoop(_, _, _)
TrailingLoop(toks, j, trailing) ==
    IF j >= Len(toks) THEN [trailing |-> trailing, j |-> j]
    ELSE LET next == toks[j + 1]
             piece == TriviaNew(to_syntax_kind(next.kind), next.start, next.end)
         IN  CASE next.kind \in {"Whitespace", "Comment"} ->
                    TrailingLoop(toks, j + 1, Append(trailing, piece))
               [] next.kind = "Newline" ->
                    [trailing |-> Append(trailing, piece), j |-> j + 1]
               [] OTHER -> [trailing |-> trailing, j |-> j]

\* attach_trivia, after the loop: left-over trivia goes to the last token, if any
AttachRemaining(result, pending) ==
    IF pending # <<>> /\ result # <<>>
    THEN [result EXCEPT ![Len(result)].trailing = @ \o pending]
    ELSE result

\* attach_trivia, one round of the outer loop; s holds the index i, the
\* result vector and the pending leading trivia
AttachStep(toks, s) ==
    IF s.i >= Len(toks) THEN s
    ELSE LET token == toks[s.i + 1]
         IN  CASE token.kind = "Eof" -> [s EXCEPT !.i = s.i + 1]
               [] TokenKindIsTrivia(token.kind) ->
                    [s EXCEPT !.i = s.i + 1,
                              !.pending =
                                  Append(@, TriviaNew(to_syntax_kind(token.kind),
                                                      token.start, token.end))]
               [] OTHER ->
                    With([t \in {TrailingLoop(toks, s.i + 1, <<>>)} |->
                        [i |-> t.j,
                         result |->
                            Append(s.result,
                                with_trivia(to_syntax_kind(token.kind), token.start,
                                            token.end, s.pending, t.trailing)),
                         pending |-> <<>>] ])

RECURSIVE AttachLoop(_, _, _)
\* attach_trivia, k rounds of the outer loop, split in halves to keep the
\* evaluation shallow
AttachLoop(toks, s, k) ==
    IF k = 0 THEN s
    ELSE IF k = 1 THEN AttachStep(toks, s)
    ELSE With([m \in {AttachLoop(toks, s, k \div 2)} |->
             AttachLoop(toks, m, k - (k \div 2)) ])

\* attach_trivia: a round takes at least one token, so the loop ends within
\* Len(toks) rounds
attach_trivia(toks) ==
    With([s \in {AttachLoop(toks, [i |-> 0, result |-> <<>>, pending |-> <<>>],
                            Len(toks))} |->
        AttachRemaining(s.result, s.pending) ])

\* tokenize_cst(source)
tokenize_cst(src) == attach_trivia(tokenize(src))

-----------------------------------------------------------------------------
(* CST parser.  A child of a node is a record: a token child carries the  *)
(* CST token and no children, a node child carries children and no token. *)
(* ts is the CST token vector; positions are 0-based indexes into it.     *)

NoTok == with_trivia(NoKind, 0, 0, <<>>, <<>>)

\* CstChild::Token
CstChildToken(t) == [isNode |-> FALSE, kind |-> t.kind, tok |-> t, children |-> <<>>]

\* CstNode::with_children (as CstChild::Node)
with_children(kind, children) ==
    [isNode |-> TRUE, kind |-> kind, tok |-> NoTok, children |-> children]

\* a parse result: the new position and the (possibly empty) list of children
CstRet(pos, children) == [pos |-> pos, children |-> children]

CstIsAtEnd(ts, pos) == pos >= Len(ts)

\* CstParser::current_kind
current_kind(ts, pos) == IF pos < Len(ts) THEN ts[pos + 1].kind ELSE NoKind

\* CstParser::check
CstCheck(ts, pos, kind) == current_kind(ts, pos) = kind

\* CstParser::check_any
check_any(ts, pos, kinds) == current_kind(ts, pos) \in kinds

\* CstParser::advance: zero or one token child
CstAdvance(ts, pos) ==
    IF CstIsAtEnd(ts, pos) THEN CstRet(pos, <<>>)
    ELSE CstRet(pos + 1, <<CstChildToken(ts[pos + 1])>>)

\* CstParser::eat that consumes the token without returning it
eat_dropped(ts, pos, kind) ==
    IF CstCheck(ts, pos, kind) THEN CstRet(pos + 1, <<>>) ELSE CstRet(pos, <<>>)

\* CstParser::eat
eat(ts, pos, kind) ==
    IF CstCheck(ts, pos, kind) THEN CstAdvance(ts, pos) ELSE CstRet(pos, <<>>)

AccidentalKinds == {"SHARP", "NATURAL", "FLAT"}
NoteStartKinds == {"SHARP", "NATURAL", "FLAT", "NOTE_NAME"}
OctaveKinds == {"OCTAVE_UP", "OCTAVE_DOWN"}
DurationKinds == {"NUMBER", "SLASH"}

\* `while self.check_any(kinds) { push(advance()) }`
\* the loop stops at the first position whose token is of another kind
EatWhile(ts, pos, kinds, children) ==
    LET stop == MinOf({q \in pos..Len(ts) : ~check_any(ts, q, kinds)})
    IN  CstRet(stop,
               children \o [i \in 1..(stop - pos) |-> CstChildToken(ts[pos + i])])

\* `while self.check(DECORATION)`: each decoration wrapped in a DECORATION_NODE
RECURSIVE DecorationLoop(_, _, _)
DecorationLoop(ts, pos, children) ==
    IF CstCheck(ts, pos, "DECORATION")
    THEN DecorationLoop(ts, pos + 1,
            Append(children,
                   with_children("DECORATION_NODE", <<CstChildToken(ts[pos + 1])>>)))
    ELSE CstRet(pos, children)

\* CstParser::parse_accidental
cst_parse_accidental(ts, pos) ==
    With([r \in {EatWhile(ts, pos, AccidentalKinds, <<>>)} |->
        CstRet(r.pos, <<with_children("ACCIDENTAL", r.children)>>) ])

\* CstParser::parse_duration
cst_parse_duration(ts, pos) ==
    With([num \in {eat(ts, pos, "NUMBER")} |->
    With([slash \in {eat(ts, num.pos, "SLASH")} |->
    With([denom \in {IF slash.children # <<>> THEN eat(ts, slash.pos, "NUMBER")
                 ELSE CstRet(slash.pos, <<>>)} |->
        CstRet(denom.pos,
               <<with_children("DURATION",
                     num.children \o slash.children \o denom.children)>>) ]) ]) ])

\* `if self.check_any(&[NUMBER, SLASH]) { parse_duration }`
OptDuration(ts, pos) ==
    IF check_any(ts, pos, DurationKinds) THEN cst_parse_duration(ts, pos)
    ELSE CstRet(pos, <<>>)

\* CstParser::parse_note
cst_parse_note(ts, pos) ==
    With([dec \in {DecorationLoop(ts, pos, <<>>)} |->
    With([acc \in {IF check_any(ts, dec.pos, AccidentalKinds)
               THEN cst_parse_accidental(ts, dec.pos)
               ELSE CstRet(dec.pos, <<>>)} |->
    With([note \in {eat(ts, acc.pos, "NOTE_NAME")} |->
    With([oct \in {EatWhile(ts, note.pos, OctaveKinds, <<>>)} |->
    With([dur \in {OptDuration(ts, oct.pos)} |->
        CstRet(dur.pos,
               <<with_children("NOTE",
                     dec.children \o acc.children \o note.children
                        \o oct.children \o dur.children)>>) ]) ]) ]) ]) ])

\* CstParser::parse_rest
cst_parse_rest(ts, pos) ==
    With([dec \in {DecorationLoop(ts, pos, <<>>)} |->
    With([rest \in {eat(ts, dec.pos, "REST")} |->
    With([dur \in {OptDuration(ts, rest.pos)} |->
        CstRet(dur.pos,
               <<with_children("REST_NODE",
                     dec.children \o rest.children \o dur.children)>>) ]) ]) ])

\* CstParser::parse_bar_line
cst_parse_bar_line(ts, pos) ==
    With([bar \in {CstAdvance(ts, pos)} |->
        CstRet(bar.pos, <<with_children("BAR_LINE", bar.children)>>) ])

\* the note loop of parse_chord and parse_grace_notes
RECURSIVE NotesUntil(_, _, _, _)
NotesUntil(ts, pos, closer, children) ==
    IF ~CstIsAtEnd(ts, pos) /\ ~CstCheck(ts, pos, closer)
       /\ check_any(ts, pos, NoteStartKinds)
    THEN With([n \in {cst_parse_note(ts, pos)} |->
             NotesUntil(ts, n.pos, closer, children \o n.children) ])
    ELSE CstRet(pos, children)

\* CstParser::parse_chord
cst_parse_chord(ts, pos) ==
    With([dec \in {DecorationLoop(ts, pos, <<>>)} |->
    With([open \in {eat(ts, dec.pos, "L_BRACKET")} |->
    With([notes \in {NotesUntil(ts, open.pos, "R_BRACKET", <<>>)} |->
    With([close \in {eat(ts, notes.pos, "R_BRACKET")} |->
    With([dur \in {OptDuration(ts, close.pos)} |->
        CstRet(dur.pos,
               <<with_children("CHORD",
                     dec.children \o open.children \o notes.children
                        \o close.children \o dur.children)>>) ]) ]) ]) ]) ])

\* the token loop of parse_inline_field
RECURSIVE InlineTokens(_, _, _)
InlineTokens(ts, pos, children) ==
    IF ~CstIsAtEnd(ts, pos) /\ ~CstCheck(ts, pos, "R_BRACKET")
    THEN InlineTokens(ts, pos + 1, Append(children, CstChildToken(ts[pos + 1])))
    ELSE CstRet(pos, children)

\* CstParser::parse_inline_field
cst_parse_inline_field(ts, pos) ==
    With([open \in {eat(ts, pos, "L_BRACKET")} |->
    With([inner \in {InlineTokens(ts, open.pos, <<>>)} |->
    With([close \in {eat(ts, inner.pos, "R_BRACKET")} |->
        CstRet(close.pos,
               <<with_children("INLINE_FIELD",
                     open.children \o inner.children \o close.children)>>) ]) ]) ])

\* CstParser::parse_chord_or_inline_field
parse_chord_or_inline_field(ts, pos) ==
    IF current_kind(ts, pos + 1) \in {"FIELD_LABEL", "TEXT"}
    THEN cst_parse_inline_field(ts, pos)
    ELSE cst_parse_chord(ts, pos)

\* CstParser::parse_grace_notes
cst_parse_grace_notes(ts, pos) ==
    With([open \in {eat(ts, pos, "L_BRACE")} |->
    With([notes \in {NotesUntil(ts, open.pos, "R_BRACE", <<>>)} |->
    With([close \in {eat(ts, notes.pos, "R_BRACE")} |->
        CstRet(close.pos,
               <<with_children("GRACE_NOTES",
                     open.children \o notes.children \o close.children)>>) ]) ]) ])

\* the tuplet count of the lossless parser
CstTupletCount == 3

\* the note loop of parse_tuplet
RECURSIVE CstTupletLoop(_, _, _, _)
CstTupletLoop(ts, pos, left, children) ==
    IF left > 0 /\ check_any(ts, pos, NoteStartKinds)
    THEN With([n \in {cst_parse_note(ts, pos)} |->
             CstTupletLoop(ts, n.pos, left - 1, children \o n.children) ])
    ELSE CstRet(pos, children)

\* CstParser::parse_tuplet
cst_parse_tuplet(ts, pos) ==
    With([marker \in {eat(ts, pos, "TUPLET_MARKER")} |->
    With([notes \in {CstTupletLoop(ts, marker.pos, CstTupletCount, <<>>)} |->
        CstRet(notes.pos,
               <<with_children("TUPLET", marker.children \o notes.children)>>) ]) ])

\* a single token wrapped in a node (decoration, tie, broken rhythm)
WrapToken(ts, pos, kind) ==
    With([t \in {CstAdvance(ts, pos)} |->
        CstRet(t.pos, <<with_children(kind, t.children)>>) ])

\* parse_music_element, parse_slur and the element loop of parse_slur call one
\* another; they are one recursive operator, selected by `fn`:
\*   "element": parse_music_element (no child and the same position for None)
\*   "slur":    parse_slur
\*   "loop":    `while !is_at_end() && !check(R_PAREN)` of parse_slur
RECURSIVE CstElement(_, _, _, _)
CstElement(fn, ts, pos, children) ==
    CASE fn = "element" ->
            LET kind == current_kind(ts, pos)
            IN  CASE kind \in NoteStartKinds -> cst_parse_note(ts, pos)
                  [] kind = "REST" -> cst_parse_rest(ts, pos)
                  [] kind \in {"BAR", "DOUBLE_BAR", "REPEAT_START", "REPEAT_END",
                               "THIN_THICK_BAR", "THICK_THIN_BAR"} ->
                        cst_parse_bar_line(ts, pos)
                  [] kind = "L_BRACKET" -> parse_chord_or_inline_field(ts, pos)
                  [] kind = "L_PAREN" -> CstElement("slur", ts, pos, <<>>)
                  [] kind = "L_BRACE" -> cst_parse_grace_notes(ts, pos)
                  [] kind = "TUPLET_MARKER" -> cst_parse_tuplet(ts, pos)
                  [] kind = "DECORATION" -> WrapToken(ts, pos, "DECORATION_NODE")
                  [] kind = "TIE" -> WrapToken(ts, pos, "TIE_NODE")
                  [] kind = "BROKEN_RHYTHM" ->
                        WrapToken(ts, pos, "BROKEN_RHYTHM_NODE")
                  [] OTHER -> CstRet(pos, <<>>)
      [] fn = "slur" ->
            With([open \in {eat(ts, pos, "L_PAREN")} |->
            With([inner \in {CstElement("loop", ts, open.pos, <<>>)} |->
            With([close \in {eat(ts, inner.pos, "R_PAREN")} |->
                CstRet(close.pos,
                       <<with_children("SLUR",
                             open.children \o inner.children \o close.children)>>) ]) ]) ])
      [] fn = "loop" ->
            IF ~CstIsAtEnd(ts, pos) /\ ~CstCheck(ts, pos, "R_PAREN")
            THEN With([e \in {CstElement("element", ts, pos, <<>>)} |->
                 With([r \in {IF e.children # <<>> THEN e ELSE CstAdvance(ts, pos)} |->
                     CstElement("loop", ts, r.pos, children \o r.children) ]) ])
            ELSE CstRet(pos, children)

\* CstParser::parse_music_element
cst_parse_music_element(ts, pos) == CstElement("element", ts, pos, <<>>)

\* CstParser::parse_slur
cst_parse_slur(ts, pos) == CstElement("slur", ts, pos, <<>>)

\* the loop of CstParser::parse_body
RECURSIVE CstBodyLoop(_, _, _)
CstBodyLoop(ts, pos, children) ==
    IF ~CstIsAtEnd(ts, pos)
    THEN With([e \in {cst_parse_music_element(ts, pos)} |->
         With([r \in {IF e.children # <<>> THEN e ELSE CstAdvance(ts, pos)} |->
             CstBodyLoop(ts, r.pos, children \o r.children) ]) ])
    ELSE CstRet(pos, children)

\* CstParser::parse_body
cst_parse_body(ts, pos) ==
    With([r \in {CstBodyLoop(ts, pos, <<>>)} |->
        CstRet(r.pos, <<with_children("BODY", r.children)>>) ])

\* CstParser::parse_header_field
cst_parse_header_field(ts, pos) ==
    With([label \in {eat(ts, pos, "FIELD_LABEL")} |->
    With([colon \in {eat(ts, label.pos, "COLON")} |->
    With([value \in {IF ~CstIsAtEnd(ts, colon.pos) THEN eat(ts, colon.pos, "TEXT")
                 ELSE CstRet(colon.pos, <<>>)} |->
        CstRet(value.pos,
               <<with_children("HEADER_FIELD",
                     label.children \o colon.children \o value.children)>>) ]) ]) ])

\* the loop of CstParser::parse_header
RECURSIVE CstHeaderLoop(_, _, _)
CstHeaderLoop(ts, pos, children) ==
    IF ~CstIsAtEnd(ts, pos) /\ CstCheck(ts, pos, "FIELD_LABEL")
    THEN With([f \in {cst_parse_header_field(ts, pos)} |->
             CstHeaderLoop(ts, f.pos, children \o f.children) ])
    ELSE CstRet(pos, children)

\* CstParser::parse_header
cst_parse_header(ts, pos) ==
    With([r \in {CstHeaderLoop(ts, pos, <<>>)} |->
        CstRet(r.pos, <<with_children("HEADER", r.children)>>) ])

\* CstParser::parse_tune
parse_tune(ts) ==
    With([header \in {cst_parse_header(ts, 0)} |->
    With([body \in {cst_parse_body(ts, header.pos)} |->
        with_children("TUNE", header.children \o body.children) ]) ])

\* parse_cst(source)
parse_cst(src) == parse_tune(tokenize_cst(src))

-----------------------------------------------------------------------------
(* CST printer *)

\* Trivia::text and CstToken::text
RangeText(src, r) == Slice(src, r.start, r.end)

\* the text of a list of trivia pieces, in order
RECURSIVE TriviaText(_, _)
TriviaText(src, trivia) ==
    IF trivia = <<>> THEN <<>>
    ELSE RangeText(src, Head(trivia)) \o TriviaText(src, Tail(trivia))

\* print_token
print_token(token, src) ==
    TriviaText(src, token.leading) \o RangeText(src, token)
        \o TriviaText(src, token.trailing)

RECURSIVE print_node(_, _)
RECURSIVE PrintChildren(_, _)

\* print_child
print_child(child, src) ==
    IF child.isNode THEN print_node(child, src) ELSE print_token(child.tok, src)

\* the `for child in node.children()` loop of print_node
PrintChildren(children, src) ==
    IF children = <<>> THEN <<>>
    ELSE print_child(Head(children), src) \o PrintChildren(Tail(children), src)

\* print_node
print_node(node, src) == PrintChildren(node.children, src)

\* print_cst
print_cst(node, src) == print_node(node, src)


-----------------------------------------------------------------------------
(* Projection of the lossless tree to the semantic tree (cst_to_ast).  The *)
(* elements are records of the same shape as those of the diagnostic       *)
(* parser; a note also records whether its octave arithmetic left the i8   *)
(* range (overflowed), which aborts the call when overflow checks are on.  *)

\* TextRange::default()
RangeDefault == [start |-> 0, end |-> 0]

RECURSIVE CstRange(_)
\* CstChild::range and CstNode::range: from the first child to the last,
\* without the trivia of the tokens
CstRange(child) ==
    IF ~child.isNode THEN [start |-> child.tok.start, end |-> child.tok.end]
    ELSE IF child.children = <<>> THEN RangeDefault
    ELSE [start |-> CstRange(child.children[1]).start,
          end |-> CstRange(child.children[Len(child.children)]).end]

\* CstNode::child_nodes and CstNode::child_tokens, filtered by kind
ChildNodes(node, kind) ==
    SelectSeq(node.children, LAMBDA c : c.isNode /\ c.kind = kind)

ChildTokens(node, kind) ==
    SelectSeq(node.children, LAMBDA c : ~c.isNode /\ c.kind = kind)

\* CstNode::find_child_node
find_child_node(node, kind) ==
    IF ChildNodes(node, kind) = <<>> THEN None ELSE Some(ChildNodes(node, kind)[1])

\* CstNode::find_child_token
find_child_token(node, kind) ==
    IF ChildTokens(node, kind) = <<>> THEN None
    ELSE Some(ChildTokens(node, kind)[1].tok)

RECURSIVE FirstTokenOf(_)
\* CstNode::first_token: the first token of the subtree, over a list of
\* children
FirstTokenOf(children) ==
    IF children = <<>> THEN None
    ELSE IF ~Head(children).isNode THEN Some(Head(children).tok)
    ELSE IF FirstTokenOf(Head(children).children).some
    THEN FirstTokenOf(Head(children).children)
    ELSE FirstTokenOf(Tail(children))

first_token(node) == FirstTokenOf(node.children)

\* `count() as i8`: the low eight bits of the count, read as signed
AsI8(n) == I8Wrap(n)

RECURSIVE DurationTokens(_, _, _)
\* the loop of convert_duration over the child tokens; d is the duration so
\* far with has_slash
DurationTokens(toks, src, d) ==
    IF toks = <<>> THEN d
    ELSE LET token == Head(toks).tok
             parsed == ParseU32(RangeText(src, token))
             val == IF parsed = ParseErr THEN 1 ELSE parsed
         IN  DurationTokens(Tail(toks), src,
                 CASE token.kind = "NUMBER" ->
                        IF d.has_slash THEN [d EXCEPT !.denominator = val]
                        ELSE [d EXCEPT !.numerator = val]
                   [] token.kind = "SLASH" ->
                        [d EXCEPT !.has_slash = TRUE, !.denominator = 2]
                   [] OTHER -> d)

\* convert_duration
convert_duration(node, src) ==
    LET d == DurationTokens(SelectSeq(node.children, LAMBDA c : ~c.isNode), src,
                            [numerator |-> 1, denominator |-> 1, has_slash |-> FALSE])
    IN  [numerator |-> d.numerator, denominator |-> d.denominator]

\* `.find_child_node(DURATION).map(|d| convert_duration(d, source))`
OptConvertDuration(node, src) ==
    IF find_child_node(node, "DURATION").some
    THEN Some(convert_duration(find_child_node(node, "DURATION").val, src))
    ELSE None

\* the accidental of convert_note, from the tokens of the ACCIDENTAL node
ConvertAccidental(acc) ==
    LET sharp_count == Len(ChildTokens(acc, "SHARP"))
        flat_count == Len(ChildTokens(acc, "FLAT"))
        natural_count == Len(ChildTokens(acc, "NATURAL"))
    IN  IF natural_count > 0 THEN "Natural"
        ELSE IF sharp_count >= 2 THEN "DoubleSharp"
        ELSE IF sharp_count = 1 THEN "Sharp"
        ELSE IF flat_count >= 2 THEN "DoubleFlat"
        ELSE "Flat"

\* convert_note
convert_note(node, src) ==
    LET acc == find_child_node(node, "ACCIDENTAL")
        note_token == find_child_token(node, "NOTE_NAME")
        pb == IF note_token.some /\ note_token.val.start < note_token.val.end
              THEN PitchFromChar(src[note_token.val.start + 1])
              ELSE None
        pitch == IF pb.some THEN pb.val.pitch ELSE "C"
        base_octave == IF pb.some THEN pb.val.octave ELSE 0
        octave_up == AsI8(Len(ChildTokens(node, "OCTAVE_UP")))
        octave_down == AsI8(Len(ChildTokens(node, "OCTAVE_DOWN")))
        sum == base_octave + octave_up
        octave == I8Wrap(sum) - octave_down
    IN  [type |-> "Note", pitch |-> pitch, octave |-> I8Wrap(octave),
         accidental |-> IF acc.some THEN Some(ConvertAccidental(acc.val)) ELSE None,
         duration |-> OptConvertDuration(node, src),
         start |-> CstRange(node).start, end |-> CstRange(node).end,
         overflowed |-> \/ sum < I8Min \/ sum > I8Max
                        \/ octave < I8Min \/ octave > I8Max]

\* `.child_nodes().filter(NOTE).map(convert_note).collect()`
ConvertNotes(node, src) ==
    LET notes == ChildNodes(node, "NOTE")
    IN  [i \in 1..Len(notes) |-> convert_note(notes[i], src)]

\* convert_rest
convert_rest(node, src) ==
    LET rest_token == find_child_token(node, "REST")
    IN  [type |-> "Rest",
         multi_measure |-> rest_token.some /\ RangeText(src, rest_token.val) = <<"Z">>,
         duration |-> OptConvertDuration(node, src),
         start |-> CstRange(node).start, end |-> CstRange(node).end]

\* convert_chord
convert_chord(node, src) ==
    [type |-> "Chord", notes |-> ConvertNotes(node, src),
     duration |-> OptConvertDuration(node, src),
     start |-> CstRange(node).start, end |-> CstRange(node).end]

\* convert_bar_line
convert_bar_line(node) ==
    LET t == first_token(node)
        kind == IF ~t.some THEN "Single"
                ELSE CASE t.val.kind = "BAR" -> "Single"
                       [] t.val.kind = "DOUBLE_BAR" -> "Double"
                       [] t.val.kind = "REPEAT_START" -> "RepeatStart"
                       [] t.val.kind = "REPEAT_END" -> "RepeatEnd"
                       [] t.val.kind = "THIN_THICK_BAR" -> "ThinThick"
                       [] t.val.kind = "THICK_THIN_BAR" -> "ThickThin"
                       [] OTHER -> "Single"
    IN  [type |-> "BarLine", kind |-> kind,
         start |-> CstRange(node).start, end |-> CstRange(node).end]

\* str::trim_start_matches('(')
TrimStartParens(s) == SubSeq(s, SkipWhile(s, 0, {"("}) + 1, Len(s))

\* convert_tuplet
convert_tuplet(node, src) ==
    LET marker_token == find_child_token(node, "TUPLET_MARKER")
        parsed == IF marker_token.some
                  THEN ParseU32(TrimStartParens(RangeText(src, marker_token.val)))
                  ELSE ParseErr
    IN  [type |-> "Tuplet",
         ratio |-> IF parsed = ParseErr THEN DefaultRatio ELSE parsed,
         notes |-> ConvertNotes(node, src),
         start |-> CstRange(node).start, end |-> CstRange(node).end]

\* convert_grace_notes
convert_grace_notes(node, src) ==
    [type |-> "GraceNotes", notes |-> ConvertNotes(node, src),
     start |-> CstRange(node).start, end |-> CstRange(node).end]

\* convert_broken_rhythm
convert_broken_rhythm(node, src) ==
    LET t == first_token(node)
        s == IF t.some THEN RangeText(src, t.val) ELSE <<>>
    IN  [type |-> "BrokenRhythm",
         dotted_first |-> \E i \in 1..Len(s) : s[i] = ">",
         count |-> Len(s),
         start |-> CstRange(node).start, end |-> CstRange(node).end]

\* convert_tie
convert_tie(node) ==
    [type |-> "Tie", start |-> CstRange(node).start, end |-> CstRange(node).end]

\* convert_inline_field
convert_inline_field(node, src) ==
    LET label == find_child_token(node, "FIELD_LABEL")
        value == find_child_token(node, "TEXT")
    IN  [type |-> "InlineField",
         label |-> IF label.some /\ label.val.start < label.val.end
                   THEN src[label.val.start + 1] ELSE "?",
         value |-> IF value.some THEN Trim(RangeText(src, value.val)) ELSE <<>>,
         start |-> CstRange(node).start, end |-> CstRange(node).end]

\* str::trim_start_matches('"').trim_end_matches('"')
TrimQuotes(s) ==
    LET keep == {i \in 1..Len(s) : s[i] # "\""}
    IN  IF keep = {} THEN <<>>
        ELSE SubSeq(s, MinOf(keep), CHOOSE i \in keep : \A j \in keep : j <= i)

\* convert_annotation
convert_annotation(node, src) ==
    LET t == first_token(node)
    IN  [type |-> "Annotation",
         text |-> IF t.some THEN TrimQuotes(RangeText(src, t.val)) ELSE <<>>,
         start |-> CstRange(node).start, end |-> CstRange(node).end]

RECURSIVE convert_music_element(_, _)
RECURSIVE ConvertElements(_, _)

\* `.children().iter().filter_map(convert_music_element).collect()`
ConvertElements(children, src) ==
    IF children = <<>> THEN <<>>
    ELSE LET e == convert_music_element(Head(children), src)
         IN  (IF e.some THEN <<e.val>> ELSE <<>>)
                 \o ConvertElements(Tail(children), src)

\* convert_slur
convert_slur(node, src) ==
    [type |-> "Slur", elements |-> ConvertElements(node.children, src),
     start |-> CstRange(node).start, end |-> CstRange(node).end]

\* convert_music_element
convert_music_element(child, src) ==
    IF ~child.isNode THEN None
    ELSE CASE child.kind = "NOTE" -> Some(convert_note(child, src))
           [] child.kind = "REST_NODE" -> Some(convert_rest(child, src))
           [] child.kind = "CHORD" -> Some(convert_chord(child, src))
           [] child.kind = "BAR_LINE" -> Some(convert_bar_line(child))
           [] child.kind = "TUPLET" -> Some(convert_tuplet(child, src))
           [] child.kind = "SLUR" -> Some(convert_slur(child, src))
           [] child.kind = "GRACE_NOTES" -> Some(convert_grace_notes(child, src))
           [] child.kind = "BROKEN_RHYTHM_NODE" ->
                 Some(convert_broken_rhythm(child, src))
           [] child.kind = "TIE_NODE" -> Some(convert_tie(child))
           [] child.kind = "INLINE_FIELD" -> Some(convert_inline_field(child, src))
           [] child.kind = "ANNOTATION_NODE" -> Some(convert_annotation(child, src))
           [] OTHER -> None

\* convert_body
convert_body(node, src) ==
    [elements |-> ConvertElements(node.children, src),
     start |-> CstRange(node).start, end |-> CstRange(node).end]

\* convert_header_field
convert_header_field(node, src) ==
    LET label_token == find_child_token(node, "FIELD_LABEL")
        text_token == find_child_token(node, "TEXT")
        label_char == IF label_token.some /\ label_token.val.start < label_token.val.end
                      THEN src[label_token.val.start + 1] ELSE "?"
    IN  [kind |-> HeaderFieldKindOf(label_char),
         value |-> IF text_token.some THEN Trim(RangeText(src, text_token.val))
                   ELSE <<>>,
         start |-> CstRange(node).start, end |-> CstRange(node).end]

\* convert_header
convert_header(node, src) ==
    LET fields == ChildNodes(node, "HEADER_FIELD")
    IN  [fields |-> [i \in 1..Len(fields) |-> convert_header_field(fields[i], src)],
         start |-> CstRange(node).start, end |-> CstRange(node).end]

\* cst_to_ast
cst_to_ast(tree, src) ==
    LET header == find_child_node(tree, "HEADER")
        body == find_child_node(tree, "BODY")
    IN  [header |-> IF header.some THEN convert_header(header.val, src)
                    ELSE [fields |-> <<>>, start |-> 0, end |-> 0],
         body |-> IF body.some THEN convert_body(body.val, src)
                  ELSE [elements |-> <<>>, start |-> 0, end |-> 0],
         start |-> CstRange(tree).start, end |-> CstRange(tree).end]

-----------------------------------------------------------------------------
(* Formatter.  cx = [src, config, ord] is the immutable part of a call:    *)
(* the source, the configuration and the order in which the HashMap of     *)
(* format_header_ordered yields its remaining labels; f = [output,         *)
(* in_header, after_bar, after_note] is the mutable part of the Formatter  *)
(* struct (current_line is written and never read, and is left out).       *)

\* FormatterConfig::default(); max_line_width and align_header_values are
\* never read by the formatter
FormatterConfigDefault ==
    [normalize_note_spacing |-> TRUE, space_around_bars |-> TRUE,
     align_header_values |-> FALSE, trim_trailing_whitespace |-> TRUE,
     ensure_final_newline |-> TRUE, normalize_header_order |-> FALSE,
     normalize_header_spacing |-> TRUE, remove_empty_header_lines |-> TRUE,
     max_line_width |-> 0]

\* Formatter::new
FormatterNew ==
    [output |-> <<>>, in_header |-> FALSE, after_bar |-> FALSE,
     after_note |-> FALSE]

\* str::ends_with(char)
EndsWith(s, c) == s # <<>> /\ s[Len(s)] = c

\* str::trim_end
TrimEnd(s) ==
    LET keep == {i \in 1..Len(s) : s[i] \notin TrimChars}
    IN  IF keep = {} THEN <<>>
        ELSE SubSeq(s, 1, CHOOSE i \in keep : \A j \in keep : j <= i)

RECURSIVE Lines(_)
\* str::lines: the text split at line feeds; a final line feed ends the
\* last line and starts no new one
Lines(s) ==
    IF s = <<>> THEN <<>>
    ELSE LET feeds == {i \in 1..Len(s) : s[i] = "\n"}
         IN  IF feeds = {} THEN <<s>>
             ELSE <<SubSeq(s, 1, MinOf(feeds) - 1)>>
                      \o Lines(SubSeq(s, MinOf(feeds) + 1, Len(s)))

RECURSIVE JoinLines(_)
\* [str]::join("\n")
JoinLines(lines) ==
    IF lines = <<>> THEN <<>>
    ELSE IF Len(lines) = 1 THEN lines[1]
    ELSE lines[1] \o <<"\n">> \o JoinLines(Tail(lines))

\* Formatter::emit and Formatter::emit_text
emit(f, s) == [f EXCEPT !.output = @ \o s]

emit_text(f, s) == [f EXCEPT !.output = @ \o s]

RECURSIVE EmitTrivia(_, _, _)
\* the `for trivia in ...` loops of emit_token
EmitTrivia(f, cx, trivia) ==
    IF trivia = <<>> THEN f
    ELSE EmitTrivia(emit_text(f, RangeText(cx.src, Head(trivia))), cx, Tail(trivia))

\* Formatter::emit_token
emit_token(f, cx, token) ==
    With([f1 \in {EmitTrivia(f, cx, token.leading)} |->
    With([f2 \in {emit_text(f1, RangeText(cx.src, token))} |->
        EmitTrivia(f2, cx, token.trailing) ]) ])

\* Formatter::finish
finish(f, c) ==
    LET trimmed == IF c.trim_trailing_whitespace
                   THEN LET lines == Lines(f.output)
                        IN  JoinLines([i \in 1..Len(lines) |-> TrimEnd(lines[i])])
                   ELSE f.output
    IN  IF c.ensure_final_newline /\ ~EndsWith(trimmed, "\n") /\ trimmed # <<>>
        THEN trimmed \o <<"\n">>
        ELSE trimmed

RECURSIVE TrailingTrivia(_, _, _, _)
\* Formatter::emit_trailing_trivia, with the newlines counted so far
TrailingTrivia(f, cx, trivia, newline_count) ==
    IF trivia = <<>> THEN f
    ELSE LET t == Head(trivia)
             dropping == cx.config.remove_empty_header_lines /\ f.in_header
         IN  CASE t.kind = "NEWLINE" ->
                    TrailingTrivia(
                        IF dropping
                        THEN (IF newline_count + 1 = 1 THEN emit(f, <<"\n">>) ELSE f)
                        ELSE emit_text(f, RangeText(cx.src, t)),
                        cx, Tail(trivia), newline_count + 1)
               [] t.kind = "WHITESPACE" ->
                    TrailingTrivia(
                        IF dropping /\ newline_count > 0 THEN f
                        ELSE emit_text(f, RangeText(cx.src, t)),
                        cx, Tail(trivia), newline_count)
               [] OTHER ->
                    TrailingTrivia(emit_text(f, RangeText(cx.src, t)),
                                   cx, Tail(trivia), newline_count)

emit_trailing_trivia(f, cx, trivia) == TrailingTrivia(f, cx, trivia, 0)

RECURSIVE LabelLeading(_, _, _)
\* the loop of format_header_field_normalized over the leading trivia of the
\* label
LabelLeading(f, cx, leading) ==
    IF leading = <<>> THEN f
    ELSE LET t == Head(leading)
         IN  LabelLeading(
                 CASE t.kind = "NEWLINE" ->
                        IF cx.config.remove_empty_header_lines THEN f
                        ELSE emit_text(f, RangeText(cx.src, t))
                   [] t.kind = "WHITESPACE" -> f
                   [] OTHER -> emit_text(f, RangeText(cx.src, t)),
                 cx, Tail(leading))

\* the last token child of a kind, as the loop of
\* format_header_field_normalized leaves it
LastTokenOf(node, kind) ==
    LET at == {i \in 1..Len(node.children) :
                  ~node.children[i].isNode /\ node.children[i].kind = kind}
    IN  IF at = {} THEN None
        ELSE Some(node.children[CHOOSE i \in at : \A j \in at : j <= i].tok)

\* Formatter::format_header_field_normalized
format_header_field_normalized(f, cx, node) ==
    LET label == LastTokenOf(node, "FIELD_LABEL")
        colon == LastTokenOf(node, "COLON")
        value == LastTokenOf(node, "TEXT")
    IN  With([f1 \in {IF label.some
                      THEN emit(LabelLeading(f, cx, label.val.leading),
                                RangeText(cx.src, label.val))
                      ELSE f} |->
        With([f2 \in {IF colon.some THEN emit(f1, <<":">>) ELSE f1} |->
            IF value.some
            THEN emit_trailing_trivia(emit(f2, Trim(RangeText(cx.src, value.val))),
                                      cx, value.val.trailing)
            ELSE IF colon.some
            THEN emit_trailing_trivia(f2, cx, colon.val.trailing)
            ELSE f2 ]) ])

\* SyntaxKind::is_trivia
SyntaxKindIsTrivia(kind) ==
    kind \in {"WHITESPACE", "NEWLINE", "COMMENT", "LINE_CONTINUATION"}

\* Formatter::is_empty_line_trivia
is_empty_line_trivia(cx, token) ==
    \A i \in (token.start + 1)..token.end : cx.src[i] \in TrimChars

\* Formatter::is_note_like on prev / next, absent when out of the children
is_note_like(children, i) ==
    /\ i \in 1..Len(children)
    /\ children[i].isNode
    /\ children[i].kind \in {"NOTE", "REST_NODE", "CHORD", "TUPLET"}

\* Formatter::maybe_space_before_bar
maybe_space_before_bar(f, cx, children, i) ==
    IF /\ cx.config.space_around_bars
       /\ is_note_like(children, i - 1)
       /\ ~EndsWith(f.output, " ")
       /\ ~EndsWith(f.output, "\n")
    THEN emit(f, <<" ">>)
    ELSE f

\* Formatter::maybe_space_between_notes
maybe_space_between_notes(f, cx, children, i) ==
    IF /\ cx.config.normalize_note_spacing
       /\ i > 1
       /\ f.after_bar /\ cx.config.space_around_bars
       /\ ~EndsWith(f.output, " ")
       /\ ~EndsWith(f.output, "\n")
    THEN emit(f, <<" ">>)
    ELSE f

\* the standard header field order of format_header_ordered
HeaderOrder ==
    <<"X", "T", "C", "O", "A", "M", "L", "Q", "P", "Z", "N", "G", "H", "K">>

\* Formatter::get_field_label
get_field_label(cx, node) ==
    LET at == {i \in 1..Len(node.children) :
                  ~node.children[i].isNode /\ node.children[i].kind = "FIELD_LABEL"}
    IN  IF at = {} THEN None
        ELSE LET t == RangeText(cx.src, node.children[MinOf(at)].tok)
             IN  Some(IF t = <<>> THEN "?" ELSE t[1])

RECURSIVE format_node(_, _, _)
RECURSIVE FormatChildren(_, _, _)
RECURSIVE HeaderChildren(_, _, _)
RECURSIVE FieldChildren(_, _, _)
RECURSIVE FieldsInOrder(_, _, _, _)
RECURSIVE FieldList(_, _, _)
RECURSIVE BodyChildren(_, _, _, _)
RECURSIVE BarLineContent(_, _, _)

\* Formatter::format_child
format_child(f, cx, child) ==
    IF child.isNode THEN format_node(f, cx, child) ELSE emit_token(f, cx, child.tok)

\* Formatter::format_children
FormatChildren(f, cx, children) ==
    IF children = <<>> THEN f
    ELSE FormatChildren(format_child(f, cx, Head(children)), cx, Tail(children))

format_children(f, cx, node) == FormatChildren(f, cx, node.children)

\* the passthrough loop of format_header_field
FieldChildren(f, cx, children) ==
    IF children = <<>> THEN f
    ELSE FieldChildren(format_child(f, cx, Head(children)), cx, Tail(children))

\* Formatter::format_header_field
format_header_field(f, cx, node) ==
    IF cx.config.normalize_header_spacing
    THEN format_header_field_normalized(f, cx, node)
    ELSE FieldChildren(f, cx, node.children)

\* the loop of format_header over the children of the header
HeaderChildren(f, cx, children) ==
    IF children = <<>> THEN f
    ELSE LET child == Head(children)
         IN  HeaderChildren(
                 IF child.isNode /\ child.kind = "HEADER_FIELD"
                 THEN format_header_field(f, cx, child)
                 ELSE IF ~child.isNode
                 THEN (IF /\ cx.config.remove_empty_header_lines
                          /\ \/ child.kind = "NEWLINE"
                             \/ /\ SyntaxKindIsTrivia(child.kind)
                                /\ is_empty_line_trivia(cx, child.tok)
                       THEN f
                       ELSE emit_token(f, cx, child.tok))
                 ELSE format_node(f, cx, child),
                 cx, Tail(children))

\* the `for field in ...` loops of format_header_ordered
FieldList(f, cx, fields) ==
    IF fields = <<>> THEN f
    ELSE FieldList(format_header_field(f, cx, Head(fields)), cx, Tail(fields))

\* format_header_ordered: the fields whose label is the first of labels, then
\* the fields of the labels after it
FieldsInOrder(f, cx, fields, labels) ==
    IF labels = <<>> THEN f
    ELSE FieldsInOrder(
             FieldList(f, cx,
                 SelectSeq(fields,
                     LAMBDA n : get_field_label(cx, n) = Some(Head(labels)))),
             cx, fields, Tail(labels))

\* Formatter::format_header_ordered: the standard labels in their order, then
\* the remaining labels as the HashMap yields them (cx.ord), then the fields
\* without a label
format_header_ordered(f, cx, node) ==
    LET fields == SelectSeq(node.children,
                      LAMBDA c : c.isNode /\ c.kind = "HEADER_FIELD")
        other_fields == SelectSeq(fields, LAMBDA n : ~get_field_label(cx, n).some)
    IN  FieldList(FieldsInOrder(f, cx, fields, HeaderOrder \o cx.ord),
                  cx, other_fields)

\* Formatter::format_header
format_header(f, cx, node) ==
    With([f1 \in {[f EXCEPT !.in_header = TRUE]} |->
    With([f2 \in {IF cx.config.normalize_header_order
                  THEN format_header_ordered(f1, cx, node)
                  ELSE IF cx.config.remove_empty_header_lines
                          \/ cx.config.normalize_header_spacing
                  THEN HeaderChildren(f1, cx, node.children)
                  ELSE format_children(f1, cx, node)} |->
        [f2 EXCEPT !.in_header = FALSE] ]) ])

\* Formatter::format_bar_line_content
BarLineContent(f, cx, children) ==
    IF children = <<>> THEN f
    ELSE BarLineContent(
             IF Head(children).isNode THEN format_node(f, cx, Head(children))
             ELSE emit(f, RangeText(cx.src, Head(children).tok)),
             cx, Tail(children))

format_bar_line_content(f, cx, node) == BarLineContent(f, cx, node.children)

\* Formatter::format_body_element on child i of the body
format_body_element(f, cx, children, i) ==
    LET child == children[i]
    IN  IF ~child.isNode THEN emit_token(f, cx, child.tok)
        ELSE IF child.kind = "BAR_LINE"
        THEN With([f1 \in {IF cx.config.space_around_bars
                           THEN format_bar_line_content(
                                    maybe_space_before_bar(f, cx, children, i),
                                    cx, child)
                           ELSE format_node(f, cx, child)} |->
                 [f1 EXCEPT !.after_bar = TRUE, !.after_note = FALSE] ])
        ELSE IF child.kind \in {"NOTE", "REST_NODE", "CHORD"}
        THEN With([f1 \in {format_node(maybe_space_between_notes(f, cx, children, i),
                                       cx, child)} |->
                 [f1 EXCEPT !.after_note = TRUE, !.after_bar = FALSE] ])
        ELSE With([f1 \in {format_node(f, cx, child)} |->
                 [f1 EXCEPT !.after_bar = FALSE, !.after_note = FALSE] ])

\* the loop of format_body
BodyChildren(f, cx, children, i) ==
    IF i > Len(children) THEN f
    ELSE BodyChildren(format_body_element(f, cx, children, i), cx, children, i + 1)

\* Formatter::format_body
format_body(f, cx, node) ==
    BodyChildren([f EXCEPT !.after_bar = FALSE, !.after_note = FALSE],
                 cx, node.children, 1)

\* Formatter::format_node; every kind but the four below formats its children
format_node(f, cx, node) ==
    CASE node.kind = "HEADER" -> format_header(f, cx, node)
      [] node.kind = "HEADER_FIELD" -> format_header_field(f, cx, node)
      [] node.kind = "BODY" -> format_body(f, cx, node)
      [] OTHER -> format_children(f, cx, node)

\* format(source, config), with the order ord of the HashMap
format(src, c, ord) ==
    finish(format_node(FormatterNew, [src |-> src, config |-> c, ord |-> ord],
                       parse_cst(src)),
           c)

-----------------------------------------------------------------------------
(* TextRange (chamber_text_size) and DiagnosticBag (chamber_diagnostics) *)

\* TextRange::new: start <= end is asserted
TextRangeNew(start, end) == [start |-> start, end |-> end]

\* TextRange::contains: the end is exclusive
contains(r, offset) == r.start <= offset /\ offset < r.end

Max2(a, b) == IF a >= b THEN a ELSE b
Min2(a, b) == IF a <= b THEN a ELSE b

\* TextRange::intersect with the comparison `start < end`
intersect_strict(a, b) ==
    LET start == Max2(a.start, b.start)
        end == Min2(a.end, b.end)
    IN  IF start < end THEN Some([start |-> start, end |-> end]) ELSE None

\* TextRange::intersect
intersect(a, b) ==
    LET start == Max2(a.start, b.start)
        end == Min2(a.end, b.end)
    IN  IF start <= end THEN Some([start |-> start, end |-> end]) ELSE None

\* DiagnosticBag::new
DiagnosticBagNew == [diagnostics |-> <<>>, error_count |-> 0, warning_count |-> 0]

\* DiagnosticBag::report that counts every diagnostic as an error
bag_report_all_errors(b, diagnostic) ==
    [diagnostics |-> Append(b.diagnostics, diagnostic),
     error_count |-> b.error_count + 1,
     warning_count |-> b.warning_count]

\* DiagnosticBag::report
bag_report(b, diagnostic) ==
    [diagnostics |-> Append(b.diagnostics, diagnostic),
     error_count |-> IF diagnostic.severity = "Error" THEN b.error_count + 1
                     ELSE b.error_count,
     warning_count |-> IF diagnostic.severity = "Warning" THEN b.warning_count + 1
                       ELSE b.warning_count]

\* DiagnosticBag::clear
clear(b) == [diagnostics |-> <<>>, error_count |-> 0, warning_count |-> 0]

\* DiagnosticBag::has_errors
has_errors(b) == b.error_count > 0

\* DiagnosticBag::has_warnings
has_warnings(b) == b.warning_count > 0
-----------------------------------------------------------------------------
(* The state machine: one call of each entry point on one source text *)

\* the build profiles: overflow checks on (debug) or off (release)
Builds == {"debug", "release"}

\* `overflow-checks` of the profile
OverflowChecks(b) == b = "debug"

\* the tune of a call that returned nothing
NoTune ==
    [header |-> [fields |-> <<>>, start |-> 0, end |-> 0],
     body |-> [elements |-> <<>>, start |-> 0, end |-> 0],
     start |-> 0, end |-> 0]

\* what parse_with_diagnostics hands back: a panic returns nothing
Returned(r) ==
    [panicked |-> r.st.panicked,
     tune |-> IF r.st.panicked THEN NoTune ELSE r.tune,
     diags |-> IF r.st.panicked THEN <<>> ELSE r.st.diags,
     iters |-> r.st.iters]

\* all texts of at most n characters over an alphabet
Texts(alphabet, n) == UNION {[1..k -> alphabet] : k \in 0..n}

\* all concatenations of at most n of the given pieces
RECURSIVE Joined(_, _)
Joined(pieces, n) ==
    IF n = 0 THEN {<<>>}
    ELSE {<<>>} \cup {p \o t : p \in pieces, t \in Joined(pieces, n - 1)}

\* the state after construction, for a source drawn from S, a build profile
\* drawn from B and a formatter configuration drawn from C, the two ranges
\* left open
StartCalls(S, B, C) ==
    /\ source \in S
    /\ build \in B
    /\ config \in C
    /\ formatted = <<>>
    /\ reformatted = <<>>
    /\ done = {}
    /\ tokens = <<>>
    /\ outcome = Returned([st |-> StateNew, tune |-> NoTune])
    /\ cstTokens = <<>>
    /\ cst = with_children("TUNE", <<>>)
    /\ printed = <<>>
    /\ projected = [panicked |-> FALSE, tune |-> NoTune]
    /\ bag = DiagnosticBagNew
    /\ reported = <<>>
    /\ overlap = None

\* the same with two default ranges
StartWith(S, B, C) ==
    /\ StartCalls(S, B, C)
    /\ ranges = [a |-> RangeDefault, b |-> RangeDefault]

Start(S, B) == StartWith(S, B, {FormatterConfigDefault})

\* Lexer::new(source).tokenize()
Tokenize ==
    /\ "tokenize" \notin done
    /\ tokens' = tokenize(source)
    /\ done' = done \cup {"tokenize"}
    /\ UNCHANGED <<source, build, outcome, cstTokens, cst, printed, config,
                   formatted, reformatted,
                   projected, bag, reported, ranges, overlap>>

\* parse_with_diagnostics(source)
ParseWithDiagnostics ==
    /\ "parse_with_diagnostics" \notin done
    /\ outcome' = Returned(parse_with_diagnostics(source, OverflowChecks(build)))
    /\ done' = done \cup {"parse_with_diagnostics"}
    /\ UNCHANGED <<source, build, tokens, cstTokens, cst, printed, config,
                   formatted, reformatted,
                   projected, bag, reported, ranges, overlap>>

\* tokenize_cst(source)
TokenizeCst ==
    /\ "tokenize_cst" \notin done
    /\ cstTokens' = tokenize_cst(source)
    /\ done' = done \cup {"tokenize_cst"}
    /\ UNCHANGED <<source, build, tokens, outcome, cst, printed, config,
                   formatted, reformatted,
                   projected, bag, reported, ranges, overlap>>

\* parse_cst(source)
ParseCst ==
    /\ "parse_cst" \notin done
    /\ cst' = parse_cst(source)
    /\ done' = done \cup {"parse_cst"}
    /\ UNCHANGED <<source, build, tokens, outcome, cstTokens, printed, config,
                   formatted, reformatted,
                   projected, bag, reported, ranges, overlap>>

\* print_cst(&cst, source) on the tree parse_cst returned
PrintCst ==
    /\ "parse_cst" \in done
    /\ "print_cst" \notin done
    /\ printed' = print_cst(cst, source)
    /\ done' = done \cup {"print_cst"}
    /\ UNCHANGED <<source, build, tokens, outcome, cstTokens, cst, config,
                   formatted, reformatted,
                   projected, bag, reported, ranges, overlap>>

\* the orders in which a HashMap can yield the keys S
Orders(S) ==
    {p \in [1..Cardinality(S) -> S] : \A i, j \in 1..Cardinality(S) : p[i] = p[j] => i = j}

\* the field labels of a text that are outside the standard order: the keys
\* left in field_map of format_header_ordered
RemainingLabels(s) ==
    {s[i] : i \in 1..Len(s)}
        \cap (FieldOnlyChars \ {HeaderOrder[i] : i \in 1..Len(HeaderOrder)})

\* format(source, &config)
Format ==
    /\ "format" \notin done
    /\ \E ord \in Orders(RemainingLabels(source)) :
           formatted' = format(source, config, ord)
    /\ done' = done \cup {"format"}
    /\ UNCHANGED <<source, build, tokens, outcome, cstTokens, cst, printed, config,
                   reformatted,
                   projected, bag, reported, ranges, overlap>>

\* format(&formatted, &config) on the text format returned
Reformat ==
    /\ "format" \in done
    /\ "reformat" \notin done
    /\ \E ord \in Orders(RemainingLabels(formatted)) :
           reformatted' = format(formatted, config, ord)
    /\ done' = done \cup {"reformat"}
    /\ UNCHANGED <<source, build, tokens, outcome, cstTokens, cst, printed, config,
                   formatted,
                   projected, bag, reported, ranges, overlap>>

RECURSIVE Overflowed(_)
\* whether the octave arithmetic of some note of the elements left the i8
\* range
Overflowed(elements) ==
    \E i \in 1..Len(elements) :
        CASE elements[i].type = "Note" -> elements[i].overflowed
          [] elements[i].type \in {"Chord", "Tuplet", "GraceNotes"} ->
                \E j \in 1..Len(elements[i].notes) : elements[i].notes[j].overflowed
          [] elements[i].type = "Slur" -> Overflowed(elements[i].elements)
          [] OTHER -> FALSE

\* cst_to_ast(&cst, source) on the tree parse_cst returned: an overflow of the
\* octave arithmetic aborts the call when overflow checks are on
CstToAst ==
    /\ "parse_cst" \in done
    /\ "cst_to_ast" \notin done
    /\ LET tune == cst_to_ast(cst, source)
           panicked == OverflowChecks(build) /\ Overflowed(tune.body.elements)
       IN  projected' = [panicked |-> panicked,
                         tune |-> IF panicked THEN NoTune ELSE tune]
    /\ done' = done \cup {"cst_to_ast"}
    /\ UNCHANGED <<source, build, tokens, outcome, cstTokens, cst, printed, config,
                   formatted, reformatted, bag, reported, ranges, overlap>>

\* the diagnostics reported to a bag: one of each severity and two codes
BagDiagnostics ==
    {[severity |-> s, code |-> c] : s \in {"Error", "Warning", "Info"},
                                    c \in {"E001", "W001"}}

\* bag.report(diagnostic), at most MaxReports diagnostics in the bag
Report ==
    /\ Len(bag.diagnostics) < MaxReports
    /\ \E diagnostic \in BagDiagnostics :
           /\ bag' = bag_report(bag, diagnostic)
           /\ reported' = Append(reported, diagnostic)
    /\ done' = done \cup {"report"}
    /\ UNCHANGED <<source, build, tokens, outcome, cstTokens, cst, printed,
                   config, formatted, reformatted, projected, ranges, overlap>>

\* bag.clear()
Clear ==
    /\ bag' = clear(bag)
    /\ reported' = <<>>
    /\ done' = done \cup {"clear"}
    /\ UNCHANGED <<source, build, tokens, outcome, cstTokens, cst, printed,
                   config, formatted, reformatted, projected, ranges, overlap>>

\* ranges.a.intersect(ranges.b)
Intersect ==
    /\ "intersect" \notin done
    /\ overlap' = intersect(ranges.a, ranges.b)
    /\ done' = done \cup {"intersect"}
    /\ UNCHANGED <<source, build, tokens, outcome, cstTokens, cst, printed,
                   config, formatted, reformatted, projected, bag, reported, ranges>>

-----------------------------------------------------------------------------
(* Inputs *)

\* a complete, valid header: X: first, a title, K: last
ValidHeader == <<"X", ":", "1", "\n", "T", ":", "t", "\n", "K", ":", "C", "\n">>

\* music bodies: every text of at most MaxLen characters over these
BodyAlphabet ==
    {"[", "]", "(", ")", "{", "}", "C", "z", "\n", "|", "^", "#", " ", "%"}

\* a body alone, or a shorter body after the valid header
BodySources ==
    Texts(BodyAlphabet, MaxLen)
        \cup {ValidHeader \o b : b \in Texts(BodyAlphabet, MaxLen - 1)}

\* raw sources for the lexer: every text of at most MaxLexLen characters
LexAlphabet ==
    {"X", ":", "1", "\n", " ", "C", "|", "[", "%", "#", "!", "\""}

LexSources == Texts(LexAlphabet, MaxLexLen)

\* one note letter followed by k octave marks, k up to MaxMarks
OctaveSources ==
    {<<"c">> \o [i \in 1..k |-> "'"] : k \in 0..MaxMarks}
        \cup {<<"C">> \o [i \in 1..k |-> ","] : k \in 0..MaxMarks}

\* header lines with valid values
LineX == <<"X", ":", "1", "\n">>
LineT == <<"T", ":", "t", "\n">>
LineM == <<"M", ":", "4", "/", "4", "\n">>
LineK == <<"K", ":", "G", "\n">>

\* well-formed music: notes, a rest, bar lines, closed chord, slur and grace
\* group, a full triplet, spacing
MusicPieces ==
    {<<"C">>, <<"^", "F", "2">>, <<"c", "'">>, <<"z", "/", "2">>,
     <<"|">>, <<" ", "|", "]">>, <<"[", "C", "E", "]">>, <<"(", "D", "E", ")">>,
     <<"{", "g", "}", "A">>, <<"(", "3", "a", "b", "c">>, <<" ">>, <<"\n">>,
     <<" ", "|", ":">>, <<" ", ":", "|">>, <<"A", ">", "B">>, <<"A", "-", "A">>,
     <<"=", "e", ",">>, <<"_", "B", "3", "/", "2">>, <<"Z", "4">>, <<"|", "|">>,
     <<"[", "C", "E", "G", "]", "2">>, <<"(", "C", " ", "D", ")">>, <<"%", "c", "\n">>,
     <<"[", "M", ":", "3", "/", "4", "]">>, <<" ", "[", "|">>}

WellFormedBodies == Joined(MusicPieces, MaxElements)

\* X: first, then a title, optionally a meter, then K:
GoodHeaders == {LineX \o LineT \o LineK, LineX \o LineT \o LineM \o LineK,
                LineX \o LineM \o LineT \o LineK}

GoodSources == {h \o b : h \in GoodHeaders, b \in WellFormedBodies}

\* any header of at most MaxLines lines
AnyHeaders == Joined({LineX, LineT, LineM, LineK}, MaxLines)

\* assembled tunes: a complete header before well-formed music, any header
\* before at most one piece of it
HeaderSources ==
    GoodSources \cup {h \o b : h \in AnyHeaders, b \in Joined(MusicPieces, 1)}

\* bodies in which field labels occur: every text of at most MaxLen characters
\* over these, alone or after the valid header
FieldAlphabet == {"T", ":", "C", "\n", "[", "]", "^", "(", " ", "|", "K"}

FieldSources ==
    Texts(FieldAlphabet, MaxLen)
        \cup {ValidHeader \o b : b \in Texts(FieldAlphabet, MaxLen)}

\* durations as written: every text of at most MaxDur characters over these
DurAlphabet == {"0", "1", "2", "3", "5", "6", "/"}

\* what a duration is written after: a note, a rest, a chord
DurOwners == {<<"C">>, <<"z">>, <<"[", "C", "E", "]">>}

\* one element with a written duration, and a note with a shorter one before
\* a second note
DurSources ==
    {o \o d : o \in DurOwners, d \in Texts(DurAlphabet, MaxDur)}
        \cup {<<"C">> \o d \o <<"D">> : d \in Texts(DurAlphabet, MaxDur - 1)}

-----------------------------------------------------------------------------
(* Specifications *)

\* the profile of the runs in which no arithmetic can overflow
PlainBuild == {"release"}

\* the diagnostic parser on short music bodies
Init == Start(BodySources, PlainBuild)
Next == ParseWithDiagnostics
Spec == Init /\ [][Next]_vars

\* the lexer on short raw sources
InitLexer == Start(LexSources, PlainBuild)
NextLexer == Tokenize
SpecLexer == InitLexer /\ [][NextLexer]_vars

\* the diagnostic parser on one note with many octave marks
InitOctave == Start(OctaveSources, Builds)
NextOctave == ParseWithDiagnostics
SpecOctave == InitOctave /\ [][NextOctave]_vars

\* the diagnostic parser on assembled tunes
InitHeader == Start(HeaderSources, PlainBuild)
NextHeader == ParseWithDiagnostics
SpecHeader == InitHeader /\ [][NextHeader]_vars

\* the lossless pipeline on short music bodies
InitCst == Start(BodySources, PlainBuild)
NextCst == TokenizeCst \/ ParseCst \/ PrintCst
SpecCst == InitCst /\ [][NextCst]_vars

\* the diagnostic parser on bodies with field labels
InitField == Start(FieldSources, PlainBuild)
NextField == ParseWithDiagnostics
SpecField == InitField /\ [][NextField]_vars

\* the diagnostic parser on elements with written durations
InitDuration == Start(DurSources, PlainBuild)
NextDuration == ParseWithDiagnostics
SpecDuration == InitDuration /\ [][NextDuration]_vars


\* the configurations: every setting of the seven options the formatter reads
FormatterConfigs ==
    {[FormatterConfigDefault EXCEPT
          !.normalize_note_spacing = b[1], !.space_around_bars = b[2],
          !.trim_trailing_whitespace = b[3], !.ensure_final_newline = b[4],
          !.normalize_header_order = b[5], !.normalize_header_spacing = b[6],
          !.remove_empty_header_lines = b[7]] : b \in [1..7 -> BOOLEAN]}

\* header lines, blank lines, a note, a bar line and spacing
FormatPieces ==
    {<<"X", ":", "1", "\n">>, <<"R", ":", " ", "r", "\n">>, <<"S", ":", "s", "\n">>,
     <<"\n">>, <<"\n", "\n">>, <<"C">>, <<" ">>, <<"|">>}

FormatSources == Joined(FormatPieces, MaxPieces)

\* the formatter, twice, on short texts under every configuration
InitFormat == StartWith(FormatSources, PlainBuild, FormatterConfigs)
NextFormat == Format \/ Reformat
SpecFormat == InitFormat /\ [][NextFormat]_vars

\* a parenthesis followed by spaces, digits, notes and bar lines
TupletAlphabet == {" ", "2", "3", "C", "|"}

TupletSources == {<<"(">> \o t : t \in Texts(TupletAlphabet, MaxLen)}

\* the diagnostic parser on tuplet markers and what follows them
InitTuplet == Start(TupletSources, PlainBuild)
NextTuplet == ParseWithDiagnostics
SpecTuplet == InitTuplet /\ [][NextTuplet]_vars

\* clean tunes for both parsers: a valid header and a well-formed body, the
\* pieces of music now with a chord written with a space and a note with
\* two accidentals
AgreePieces ==
    MusicPieces \cup {<<"[", "C", " ", "E", "]">>, <<"^", "=", "C">>}

AgreeSources ==
    {h \o b : h \in GoodHeaders, b \in Joined(AgreePieces, MaxElements)}

InitAgree == Start(AgreeSources, PlainBuild)

NextAgree == ParseWithDiagnostics \/ ParseCst \/ CstToAst

SpecAgree == InitAgree /\ [][NextAgree]_vars

\* a DiagnosticBag under report and clear
InitBag == Start({<<>>}, PlainBuild)

NextBag == Report \/ Clear

SpecBag == InitBag /\ [][NextBag]_vars

\* the ranges over the offsets 0..MaxOffset
Ranges ==
    {TextRangeNew(p[1], p[2]) :
        p \in {q \in (0..MaxOffset) \X (0..MaxOffset) : q[1] <= q[2]}}

\* two ranges and their intersection
InitRange ==
    /\ StartCalls({<<>>}, PlainBuild, {FormatterConfigDefault})
    /\ ranges \in [a : Ranges, b : Ranges]

NextRange == Intersect

SpecRange == InitRange /\ [][NextRange]_vars

\* both parsers and the projection on a note followed by octave marks, in
\* both build profiles
InitProject == Start(OctaveSources, Builds)

NextProject == ParseWithDiagnostics \/ ParseCst \/ CstToAst

SpecProject == InitProject /\ [][NextProject]_vars

\* the lossless lexer and parser on short texts with notes, brackets of every
\* kind, inline fields, decorations and durations, well-formed or not
TerminalAlphabet ==
    {"[", "M", ":", "3", "]", "\n", "C", " ", "(", "{", "|", "^", "!", "/"}

TerminalSources == Texts(TerminalAlphabet, MaxLexLen)

InitTerminals == Start(TerminalSources, PlainBuild)

NextTerminals == TokenizeCst \/ ParseCst

SpecTerminals == InitTerminals /\ [][NextTerminals]_vars

\* the formatter with the default configuration on short music bodies with
\* notes, bar lines, spaces, line breaks and comments
LayoutAlphabet == {"C", "|", " ", "\n", "%"}

LayoutSources == Texts(LayoutAlphabet, MaxLen)

InitLayout == Start(LayoutSources, PlainBuild)

NextLayout == Format

SpecLayout == InitLayout /\ [][NextLayout]_vars
-----------------------------------------------------------------------------
(* What the properties speak about: the tokens of the source, the nodes of *)
(* the returned tune, the diagnostics by code and range                    *)

Parsed == "parse_with_diagnostics" \in done

Tokenized == "tokenize" \in done

Printed == "print_cst" \in done

\* the token stream the parser worked on
SourceTokens == tokenize(source)

\* the tokens from the start of the music body on
BodyTokens ==
    {i \in 1..Len(SourceTokens) :
        SourceTokens[i].start >= outcome.tune.body.start}

BarKinds ==
    {"Bar", "DoubleBar", "RepeatStart", "RepeatEnd", "ThinThickBar", "ThickThinBar"}

\* what ends an open construct: a bar line, a newline, the end of the input
TerminatorKinds == BarKinds \cup {"Newline", "Eof"}

OpenerKinds == {"LeftBracket", "LeftParen", "LeftBrace"}

CloserKinds == {"RightBracket", "RightParen", "RightBrace"}

CloserOf(kind) ==
    CASE kind = "LeftBracket" -> "RightBracket"
      [] kind = "LeftParen" -> "RightParen"
      [] kind = "LeftBrace" -> "RightBrace"

OpenerOf(kind) ==
    CASE kind = "RightBracket" -> "LeftBracket"
      [] kind = "RightParen" -> "LeftParen"
      [] kind = "RightBrace" -> "LeftBrace"

UnclosedCodes(kind) ==
    CASE kind = "LeftBracket" -> {"UnclosedChord", "UnclosedInlineField"}
      [] kind = "LeftParen" -> {"UnclosedSlur"}
      [] kind = "LeftBrace" -> {"UnclosedGraceNotes"}

UnexpectedClosingCode(kind) ==
    CASE kind = "RightBracket" -> "UnexpectedClosingBracket"
      [] kind = "RightParen" -> "UnexpectedClosingParen"
      [] kind = "RightBrace" -> "UnexpectedClosingBrace"

\* the diagnostics with one of the codes whose range is the token's
DiagsAt(codes, tok) ==
    {d \in 1..Len(outcome.diags) :
        /\ outcome.diags[d].code \in codes
        /\ outcome.diags[d].start = tok.start
        /\ outcome.diags[d].end = tok.end}

\* the diagnostics with one of the codes whose label is the token's range
DiagsLabelled(codes, tok) ==
    {d \in 1..Len(outcome.diags) :
        /\ outcome.diags[d].code \in codes
        /\ outcome.diags[d].label = <<[start |-> tok.start, end |-> tok.end]>>}

DiagsOf(code) ==
    {d \in 1..Len(outcome.diags) : outcome.diags[d].code = code}

Node(e) == [type |-> e.type, start |-> e.start, end |-> e.end]

RECURSIVE Nodes(_)
\* an element and everything inside it
Nodes(e) ==
    {Node(e)} \cup
    (IF e.type \in {"Chord", "GraceNotes", "Tuplet"}
     THEN {Node(e.notes[i]) : i \in 1..Len(e.notes)}
     ELSE IF e.type = "Slur"
     THEN UNION {Nodes(e.elements[i]) : i \in 1..Len(e.elements)}
     ELSE {})

\* the elements of the body itself
TopNodes ==
    {Node(outcome.tune.body.elements[i]) :
        i \in 1..Len(outcome.tune.body.elements)}

\* every element of the tree
TreeNodes ==
    UNION {Nodes(outcome.tune.body.elements[i]) :
              i \in 1..Len(outcome.tune.body.elements)}

RECURSIVE Constructs(_)
\* the chords, slurs and grace groups at and below an element, each with the
\* notes placed inside it
Constructs(e) ==
    (IF e.type \in {"Chord", "Slur", "GraceNotes"}
     THEN {[type |-> e.type, start |-> e.start, end |-> e.end,
            notes |-> {n \in Nodes(e) : n.type = "Note"}]}
     ELSE {})
    \cup
    (IF e.type = "Slur"
     THEN UNION {Constructs(e.elements[i]) : i \in 1..Len(e.elements)}
     ELSE {})

TreeConstructs ==
    UNION {Constructs(outcome.tune.body.elements[i]) :
              i \in 1..Len(outcome.tune.body.elements)}

\* token i is covered by a node of one of the types
Represented(i, types) ==
    \E n \in TreeNodes :
        /\ n.type \in types
        /\ n.start <= SourceTokens[i].start
        /\ SourceTokens[i].end <= n.end

\* the first token of the body that is not trivia
FirstBodyToken ==
    MinOf({i \in BodyTokens :
              SourceTokens[i].kind \notin {"Whitespace", "Comment"}})

\* the first terminator after token i
NextTerminator(i) ==
    MinOf({j \in (i + 1)..Len(SourceTokens) :
              SourceTokens[j].kind \in TerminatorKinds})

\* opener i is not matched by its closer before the next terminator
Unmatched(i) ==
    \A k \in (i + 1)..(NextTerminator(i) - 1) :
        SourceTokens[k].kind # CloserOf(SourceTokens[i].kind)

-----------------------------------------------------------------------------
(* Properties *)

\* C1: for every source text, printing the tree parse_cst built from it gives
\* the text back: print_cst(parse_cst(s), s) = s
C1_RoundTrip == Printed => printed = source

\* C2: no note that lies after the first newline following the opening token
\* of a chord, slur or grace group is placed inside that construct
C2_RecoveryBoundary ==
    Parsed =>
        \A c \in TreeConstructs : \A n \in c.notes :
            ~ \E i \in 1..Len(SourceTokens) :
                /\ SourceTokens[i].kind = "Newline"
                /\ c.start <= SourceTokens[i].start
                /\ SourceTokens[i].end <= n.start

\* C3: when the diagnostic list is empty, every note, rest and bar-line token
\* of the music body is represented by an element of the tree
C3_EveryGapExplained ==
    (Parsed /\ outcome.diags = <<>>) =>
        \A i \in BodyTokens :
            /\ SourceTokens[i].kind = "Note" => Represented(i, {"Note"})
            /\ SourceTokens[i].kind = "Rest" => Represented(i, {"Rest"})
            /\ SourceTokens[i].kind \in BarKinds => Represented(i, {"BarLine"})

\* C4: the parser returns on every input: it does not panic, every loop
\* iteration that goes round again has consumed a token, the position never
\* decreases, and every range it produces has start <= end
C4_NeverAborts ==
    Parsed =>
        /\ ~outcome.panicked
        /\ \A k \in 1..Len(outcome.iters) :
               outcome.iters[k].after > outcome.iters[k].before
        /\ \A d \in 1..Len(outcome.diags) :
               /\ outcome.diags[d].start <= outcome.diags[d].end
               /\ \A l \in 1..Len(outcome.diags[d].label) :
                      outcome.diags[d].label[l].start <= outcome.diags[d].label[l].end
        /\ \A n \in TreeNodes : n.start <= n.end
        /\ outcome.tune.start <= outcome.tune.end
        /\ outcome.tune.header.start <= outcome.tune.header.end
        /\ outcome.tune.body.start <= outcome.tune.body.end

\* C5: every opening [, ( or { of the body that its closer does not match
\* before the next bar line, newline or end of input has exactly one unclosed
\* diagnostic whose label is the range of that opening token
C5_EveryOpenerReported ==
    Parsed =>
        \A i \in BodyTokens :
            (SourceTokens[i].kind \in OpenerKinds /\ Unmatched(i)) =>
                Cardinality(DiagsLabelled(UnclosedCodes(SourceTokens[i].kind),
                                          SourceTokens[i])) = 1

\* C6: every ], ) or } of the body with no opener of its kind before it has
\* exactly one unexpected-closing diagnostic with the range of that token
C6_EveryCloserReported ==
    Parsed =>
        \A i \in BodyTokens :
            (/\ SourceTokens[i].kind \in CloserKinds
             /\ \A k \in 1..(i - 1) :
                    SourceTokens[k].kind # OpenerOf(SourceTokens[i].kind)) =>
                Cardinality(DiagsAt({UnexpectedClosingCode(SourceTokens[i].kind)},
                                    SourceTokens[i])) = 1

\* C7: every Error token of the lexer, wherever it stands, has exactly one
\* unexpected-character diagnostic with the range of that token
C7_EveryErrorTokenReported ==
    Parsed =>
        \A i \in 1..Len(SourceTokens) :
            SourceTokens[i].kind = "Error" =>
                Cardinality(DiagsAt({"UnexpectedCharacter"}, SourceTokens[i])) = 1

\* C8: when the body starts with an opening [, ( or { and a bar line of any
\* of the six kinds, a newline or the end of input comes before its closer,
\* the construct is reported unclosed with the opening token as label, and a
\* terminating bar line becomes a bar-line element of the body
C8_BarLinesTerminate ==
    (Parsed /\ SourceTokens[FirstBodyToken].kind \in OpenerKinds
            /\ Unmatched(FirstBodyToken)) =>
        LET open == SourceTokens[FirstBodyToken]
            term == SourceTokens[NextTerminator(FirstBodyToken)]
        IN  /\ DiagsLabelled(UnclosedCodes(open.kind), open) # {}
            /\ term.kind \in BarKinds =>
                   \E n \in TopNodes : /\ n.type = "BarLine"
                                       /\ n.start = term.start

\* C9: the tokens tile the source: the first starts at 0, each starts where
\* the one before ends, none but the last is empty, and the last is the only
\* Eof token, empty, at the length of the source
C9_LexerTiling ==
    Tokenized =>
        /\ Len(tokens) >= 1
        /\ tokens[1].start = 0
        /\ \A i \in 1..(Len(tokens) - 1) :
               /\ tokens[i].kind # "Eof"
               /\ tokens[i].start < tokens[i].end
               /\ tokens[i].end = tokens[i + 1].start
        /\ tokens[Len(tokens)] = TokenNew("Eof", Len(source), Len(source))

\* a source of several tokens, one of them longer than a character, tokenized
C9_Witness ==
    /\ Tokenized
    /\ Len(tokens) >= 3
    /\ \E i \in 1..Len(tokens) : tokens[i].end - tokens[i].start >= 2

\* the header has no field of the kind
NoField(kind) ==
    \A i \in 1..Len(outcome.tune.header.fields) :
        outcome.tune.header.fields[i].kind # kind

\* the diagnostics with the code are exactly one, an error
OneErrorOf(code) ==
    /\ Cardinality(DiagsOf(code)) = 1
    /\ \A d \in DiagsOf(code) : outcome.diags[d].severity = "error"

C10_WitnessComplete ==
    /\ Parsed
    /\ source \in GoodSources
    /\ outcome.tune.body.elements # <<>>
    /\ outcome.diags = <<>>

\* the first newline token after token i, or the end of the tokens
LineEnd(i) ==
    MinOf({j \in (i + 1)..Len(SourceTokens) :
              j = Len(SourceTokens) \/ SourceTokens[j].kind = "Newline"})

\* token i is the label of an inline field: it follows an opening [
InlineLabel(i) == i > 1 /\ SourceTokens[i - 1].kind = "LeftBracket"

\* C11: the header's field list has no field after a K: field; every field
\* label after the header has closed (the label of an inline field aside)
\* has exactly one misplaced-field warning with the range of the label, and
\* no element of the body starts in the rest of its line
C11_KeyEndsHeader ==
    Parsed =>
        /\ \A i \in 1..(Len(outcome.tune.header.fields) - 1) :
               outcome.tune.header.fields[i].kind # "Key"
        /\ \A i \in BodyTokens :
               (SourceTokens[i].kind = "FieldLabel" /\ ~InlineLabel(i)) =>
                   /\ Cardinality(DiagsAt({"UnexpectedToken"}, SourceTokens[i])) = 1
                   /\ \A d \in DiagsAt({"UnexpectedToken"}, SourceTokens[i]) :
                          outcome.diags[d].severity = "warning"
                   /\ \A n \in TreeNodes :
                          ~(/\ SourceTokens[i].end <= n.start
                            /\ n.start < SourceTokens[LineEnd(i)].start)

RECURSIVE Durations(_)
\* the durations stored at and below an element, each with the range of the
\* note, rest or chord that owns it
Durations(e) ==
    (IF e.type \in {"Note", "Rest", "Chord"} /\ e.duration.some
     THEN {[owner |-> e.type, start |-> e.start, end |-> e.end,
            numerator |-> e.duration.val.numerator,
            denominator |-> e.duration.val.denominator]}
     ELSE {})
    \cup
    (IF e.type \in {"Chord", "GraceNotes", "Tuplet"}
     THEN UNION {Durations(e.notes[i]) : i \in 1..Len(e.notes)}
     ELSE IF e.type = "Slur"
     THEN UNION {Durations(e.elements[i]) : i \in 1..Len(e.elements)}
     ELSE {})

TreeDurations ==
    UNION {Durations(outcome.tune.body.elements[i]) :
              i \in 1..Len(outcome.tune.body.elements)}

\* the text of token i
TokenText(i) == Slice(source, SourceTokens[i].start, SourceTokens[i].end)

RECURSIVE Decimal(_)
\* the number a run of digits writes
Decimal(s) ==
    IF s = <<>> THEN 0
    ELSE 10 * Decimal(SubSeq(s, 1, Len(s) - 1)) + DigitValue(s[Len(s)])

\* the tokens a note, rest or chord ends with before its duration
OwnerEndKinds == {"Note", "Rest", "OctaveUp", "OctaveDown", "RightBracket"}

\* token i is the first token of a written duration
DurationStart(i) ==
    /\ i > 1
    /\ SourceTokens[i].kind \in {"NoteLength", "Slash"}
    /\ SourceTokens[i - 1].kind \in OwnerEndKinds

\* token i is the slash of a written duration
DurationSlash(i) ==
    /\ SourceTokens[i].kind = "Slash"
    /\ \/ DurationStart(i)
       \/ i > 1 /\ SourceTokens[i - 1].kind = "NoteLength" /\ DurationStart(i - 1)

\* token i is the slash of a written duration with a number after it
HasDenominator(i) ==
    DurationSlash(i) /\ i < Len(SourceTokens) /\ SourceTokens[i + 1].kind = "NoteLength"

\* the numerator written before slash i: the number, or 1 when there is none
WrittenNumerator(i) ==
    IF SourceTokens[i - 1].kind = "NoteLength" THEN Decimal(TokenText(i - 1)) ELSE 1

\* the stored durations of the elements that token i belongs to
DurationsOver(i) ==
    {d \in TreeDurations :
        d.start <= SourceTokens[i].start /\ SourceTokens[i].end <= d.end}

\* C12: a written duration with denominator 0 has exactly one invalid-duration
\* error, and the duration stored for it has the written numerator and
\* denominator 1; no stored duration has denominator 0
C12_ZeroDenominator ==
    Parsed =>
        /\ \A d \in TreeDurations : d.denominator # 0
        /\ \A i \in 1..Len(SourceTokens) :
               (HasDenominator(i) /\ Decimal(TokenText(i + 1)) = 0) =>
                   /\ Cardinality({k \in DiagsOf("InvalidDuration") :
                          /\ outcome.diags[k].end = SourceTokens[i + 1].end
                          /\ outcome.diags[k].severity = "error"}) = 1
                   /\ DurationsOver(i) # {}
                   /\ \A d \in DurationsOver(i) :
                          /\ d.numerator = WrittenNumerator(i)
                          /\ d.denominator = 1

\* a note written with a numerator and denominator 0 has been parsed
C12_Witness ==
    /\ Parsed
    /\ \E i \in 1..Len(SourceTokens) :
           /\ HasDenominator(i) /\ Decimal(TokenText(i + 1)) = 0
           /\ SourceTokens[i - 1].kind = "NoteLength"
           /\ \E d \in DurationsOver(i) : d.numerator > 1 /\ d.denominator = 1
    /\ DiagsOf("InvalidDuration") # {}

\* the first token from j on that is no octave mark
AfterMarks(j) ==
    MinOf({k \in j..(Len(SourceTokens) + 1) :
              k > Len(SourceTokens)
                  \/ SourceTokens[k].kind \notin {"OctaveUp", "OctaveDown"}})

\* the kinds of the length tokens written from token j on
LengthRun(j) ==
    LET stop == MinOf({k \in j..(Len(SourceTokens) + 1) :
                          k > Len(SourceTokens)
                              \/ SourceTokens[k].kind \notin {"NoteLength", "Slash"}})
    IN  [k \in 1..(stop - j) |-> SourceTokens[j + k - 1].kind]

\* the duration of the note that starts at offset p: the stored one, or the
\* default when none is stored
NoteDuration(p) ==
    IF \E d \in TreeDurations : d.owner = "Note" /\ d.start = p
    THEN LET d == CHOOSE d \in TreeDurations : d.owner = "Note" /\ d.start = p
         IN  [numerator |-> d.numerator, denominator |-> d.denominator]
    ELSE DurationDefault

\* C13: a note in the tree has the duration its length tokens write: none
\* gives 1/1, a number n gives n/1, a lone slash or /2 gives 1/2, n/d with
\* d >= 1 gives n/d
C13_DurationDefaults ==
    Parsed =>
        \A i \in 1..Len(SourceTokens) :
            (/\ SourceTokens[i].kind = "Note"
             /\ \E n \in TreeNodes :
                    n.type = "Note" /\ n.start = SourceTokens[i].start) =>
                LET j == AfterMarks(i + 1)
                    run == LengthRun(j)
                    dur == NoteDuration(SourceTokens[i].start)
                IN  /\ run = <<>> => dur = [numerator |-> 1, denominator |-> 1]
                    /\ run = <<"NoteLength">> =>
                           dur = [numerator |-> Decimal(TokenText(j)),
                                  denominator |-> 1]
                    /\ run = <<"Slash">> => dur = [numerator |-> 1, denominator |-> 2]
                    /\ (run = <<"Slash", "NoteLength">> /\ TokenText(j + 1) = <<"2">>) =>
                           dur = [numerator |-> 1, denominator |-> 2]
                    /\ (run = <<"NoteLength", "Slash", "NoteLength">>
                            /\ Decimal(TokenText(j + 2)) >= 1) =>
                           dur = [numerator |-> Decimal(TokenText(j)),
                                  denominator |-> Decimal(TokenText(j + 2))]

\* a note written n/d with n > 1 and d > 1, followed by a bare note, parsed
C13_Witness ==
    /\ Parsed
    /\ \E i \in 1..Len(SourceTokens) :
           /\ SourceTokens[i].kind = "Note"
           /\ LengthRun(i + 1) = <<"NoteLength", "Slash", "NoteLength">>
           /\ NoteDuration(SourceTokens[i].start).numerator > 1
           /\ NoteDuration(SourceTokens[i].start).denominator > 1
    /\ \E i \in 1..Len(SourceTokens) :
           /\ SourceTokens[i].kind = "Note"
           /\ LengthRun(i + 1) = <<>>
           /\ \E n \in TreeNodes : n.type = "Note" /\ n.start = SourceTokens[i].start

RECURSIVE NotesOf(_)
\* the notes at and below an element, each with its octave
NotesOf(e) ==
    IF e.type = "Note"
    THEN {[start |-> e.start, end |-> e.end, octave |-> e.octave]}
    ELSE IF e.type \in {"Chord", "GraceNotes", "Tuplet"}
    THEN UNION {NotesOf(e.notes[i]) : i \in 1..Len(e.notes)}
    ELSE IF e.type = "Slur"
    THEN UNION {NotesOf(e.elements[i]) : i \in 1..Len(e.elements)}
    ELSE {}

TreeNotes ==
    UNION {NotesOf(outcome.tune.body.elements[i]) :
              i \in 1..Len(outcome.tune.body.elements)}

\* the token of toks with the letter of a note of the tree
LetterOf(toks, n) ==
    MinOf({i \in 1..Len(toks) : toks[i].kind = "Note" /\ toks[i].start >= n.start})

\* how many of the octave marks that follow letter token i are of the kind
MarksAfter(toks, i, kind) ==
    LET stop == MinOf({k \in (i + 1)..(Len(toks) + 1) :
                          k > Len(toks)
                              \/ toks[k].kind \notin {"OctaveUp", "OctaveDown"}})
    IN  Cardinality({k \in (i + 1)..(stop - 1) : toks[k].kind = kind})

\* C14: the octave of every note of the tree is 1 for a lowercase letter and
\* 0 for an uppercase one, plus its octave-up marks, minus its octave-down
\* marks
C14_OctaveArithmetic ==
    Parsed =>
        LET toks == SourceTokens
        IN  \A n \in TreeNotes :
                LET i == LetterOf(toks, n)
                IN  n.octave =
                        (IF source[toks[i].start + 1] \in LowerNoteChars THEN 1 ELSE 0)
                            + MarksAfter(toks, i, "OctaveUp")
                            - MarksAfter(toks, i, "OctaveDown")

\* the suspicious-duration warnings that end where the element of a stored
\* duration ends
SuspiciousAt(d) ==
    {k \in DiagsOf("SuspiciousDuration") :
        /\ outcome.diags[k].end = d.end
        /\ outcome.diags[k].severity = "warning"}

\* C15: a note, rest or chord with a stored duration n/d has one
\* suspicious-duration warning when n >= 16 * d and none otherwise, and every
\* such warning belongs to an element with a stored duration
C15_SuspiciousBoundary ==
    Parsed =>
        /\ \A d \in TreeDurations :
               Cardinality(SuspiciousAt(d)) =
                   IF d.numerator >= 16 * d.denominator THEN 1 ELSE 0
        /\ \A k \in DiagsOf("SuspiciousDuration") :
               \E d \in TreeDurations : k \in SuspiciousAt(d)

\* a duration exactly at the boundary, written with a denominator above 1,
\* was parsed and has its warning
C15_Witness ==
    /\ Parsed
    /\ \E d \in TreeDurations :
           /\ d.denominator > 1
           /\ d.numerator = 16 * d.denominator
           /\ SuspiciousAt(d) # {}

\* the reference-number fields of the header, in order
XFields ==
    SelectSeq(outcome.tune.header.fields, LAMBDA f : f.kind = "ReferenceNumber")

\* the X: labels written before the music body
XLabels ==
    LET toks == SourceTokens
    IN  {i \in 1..Len(toks) :
            /\ toks[i].kind = "FieldLabel"
            /\ source[toks[i].start + 1] = "X"
            /\ toks[i].start < outcome.tune.header.end}

\* the duplicate-reference-number errors on a field, labelled with another
DuplicatesOn(field, first) ==
    {k \in DiagsOf("DuplicateReferenceNumber") :
        /\ outcome.diags[k].severity = "error"
        /\ outcome.diags[k].start = field.start
        /\ outcome.diags[k].end = field.end
        /\ outcome.diags[k].label = <<[start |-> first.start, end |-> first.end]>>}

\* C16: a header with n >= 2 X: fields has exactly n - 1
\* duplicate-reference-number errors, one on each X: field after the first
\* and labelled with the first; a header with at most one X: field has none
C16_DuplicateReferenceNumbers ==
    Parsed =>
        LET n == Cardinality(XLabels)
        IN  /\ Len(XFields) = n
            /\ Cardinality(DiagsOf("DuplicateReferenceNumber")) =
                   IF n >= 2 THEN n - 1 ELSE 0
            /\ \A j \in 2..n :
                   Cardinality(DuplicatesOn(XFields[j], XFields[1])) = 1

\* a header with three X: fields was parsed
C16_Witness ==
    /\ Parsed
    /\ Cardinality(XLabels) = 3
    /\ Cardinality(DiagsOf("DuplicateReferenceNumber")) = 2

Formatted == "format" \in done

Reformatted == "reformat" \in done

\* C17: formatting the formatted text again, under the same configuration,
\* returns it unchanged
C17_Idempotent == Reformatted => reformatted = formatted

\* the same for the default configuration alone
C17_IdempotentDefault ==
    (Reformatted /\ config = FormatterConfigDefault) => reformatted = formatted

\* opener i of toks is closed by token j with only notes, rests and
\* whitespace between them
ClosedPlainly(toks, i, j) ==
    /\ j > i
    /\ toks[j].kind = CloserOf(toks[i].kind)
    /\ \A k \in (i + 1)..(j - 1) : toks[k].kind \in {"Note", "Rest", "Whitespace"}

\* C18: an opening [, ( or { whose closer follows it with only notes, rests
\* and whitespace between has no unclosed-chord, unclosed-slur or
\* unclosed-grace-notes diagnostic labelled with it
C18_UnclosedSound ==
    Parsed =>
        LET toks == SourceTokens
        IN  \A i \in 1..Len(toks) :
                (/\ toks[i].kind \in OpenerKinds
                 /\ \E j \in 1..Len(toks) : ClosedPlainly(toks, i, j)) =>
                    DiagsLabelled(UnclosedCodes(toks[i].kind), toks[i]) = {}

RECURSIVE BarLinesOf(_)
\* the bar-line elements at and below an element
BarLinesOf(e) ==
    IF e.type = "BarLine"
    THEN {[kind |-> e.kind, start |-> e.start, end |-> e.end]}
    ELSE IF e.type = "Slur"
    THEN UNION {BarLinesOf(e.elements[i]) : i \in 1..Len(e.elements)}
    ELSE {}

TreeBarLines ==
    UNION {BarLinesOf(outcome.tune.body.elements[i]) :
              i \in 1..Len(outcome.tune.body.elements)}

\* the kind of bar-line element a bar-line token stands for
BarElementKind(kind) ==
    CASE kind = "Bar" -> "Single"
      [] kind = "DoubleBar" -> "Double"
      [] kind = "RepeatStart" -> "RepeatStart"
      [] kind = "RepeatEnd" -> "RepeatEnd"
      [] kind = "ThinThickBar" -> "ThinThick"
      [] kind = "ThickThinBar" -> "ThickThin"

\* C19: every bar-line token of the body is one bar-line element of the
\* tree, at top level or in a slur, with the token's range and kind
C19_BarLinesKept ==
    Parsed =>
        LET toks == SourceTokens
        IN  \A i \in 1..Len(toks) :
                (/\ toks[i].kind \in BarKinds
                 /\ toks[i].start >= outcome.tune.body.start) =>
                    Cardinality({b \in TreeBarLines :
                        /\ b.start = toks[i].start
                        /\ b.end = toks[i].end}) = 1
                    /\ \A b \in TreeBarLines :
                           b.start = toks[i].start =>
                               b.kind = BarElementKind(toks[i].kind)

\* token j lies in the value that the colon at token i opens: no newline,
\* comment, ] or end of input from the colon up to and including j
InValue(i, j) ==
    /\ tokens[i].kind = "Colon"
    /\ j > i
    /\ \A k \in (i + 1)..j :
           tokens[k].kind \notin {"Newline", "Comment", "RightBracket", "Eof"}

\* C20: every token of a header value, from the colon to the next newline,
\* comment or ], is text or whitespace
C20_HeaderValuesOpaque ==
    Tokenized =>
        \A i, j \in 1..Len(tokens) :
            InValue(i, j) => tokens[j].kind \in {"Text", "Whitespace"}

\* the in-header flag of the lexer after its first n tokens
ModeAfter(n) == TokenizeFrom(source, LexerNew, n).hdr

\* token i is the colon of a field label: a field-label token comes before
\* it with only whitespace between
LabelColon(i) ==
    /\ tokens[i].kind = "Colon"
    /\ \E j \in 1..(i - 1) :
           /\ tokens[j].kind = "FieldLabel"
           /\ \A k \in (j + 1)..(i - 1) : tokens[k].kind = "Whitespace"

\* C21: the in-header flag turns true only on the colon of a field label,
\* and is false after every newline token
C21_ModeState ==
    Tokenized =>
        \A i \in 1..Len(tokens) :
            /\ (~ModeAfter(i - 1) /\ ModeAfter(i)) => LabelColon(i)
            /\ tokens[i].kind = "Newline" => ~ModeAfter(i)

\* C22: every field-label token is followed, after whitespace tokens only,
\* by a colon token
C22_LabelThenColon ==
    Tokenized =>
        \A i \in 1..Len(tokens) :
            tokens[i].kind = "FieldLabel" =>
                \E j \in (i + 1)..Len(tokens) :
                    /\ tokens[j].kind = "Colon"
                    /\ \A k \in (i + 1)..(j - 1) : tokens[k].kind = "Whitespace"

RECURSIVE NotesFrom(_, _)
\* how many notes follow one another from token p of toks on, each with its
\* length and with whitespace before it
NotesFrom(toks, p) ==
    LET q == MinOf({k \in p..(Len(toks) + 1) :
                       k > Len(toks) \/ toks[k].kind # "Whitespace"})
    IN  IF q <= Len(toks) /\ toks[q].kind = "Note"
        THEN 1 + NotesFrom(toks,
                     MinOf({k \in (q + 1)..(Len(toks) + 1) :
                               k > Len(toks)
                                   \/ toks[k].kind \notin {"NoteLength", "Slash"}}))
        ELSE 0

\* the number written in a tuplet marker, after its parenthesis and spaces
MarkerValue(tok) ==
    Decimal(Slice(source, SkipWs(source, tok.start + 1), tok.end))

\* the tuplet elements of the body
TopTuplets ==
    {outcome.tune.body.elements[i] : i \in
        {j \in 1..Len(outcome.tune.body.elements) :
            outcome.tune.body.elements[j].type = "Tuplet"}}

\* C23: a tuplet marker that writes N and is followed by k notes gives a
\* tuplet of ratio N holding min(N, k) notes, with a tuplet-note-mismatch
\* warning exactly when 1 <= k < N and an empty-tuplet warning exactly
\* when k = 0
C23_Tuplets ==
    Parsed =>
        LET toks == SourceTokens
        IN  toks[1].kind = "Tuplet" =>
                LET N == MarkerValue(toks[1])
                    k == NotesFrom(toks, 2)
                IN  /\ \E t \in TopTuplets :
                           /\ t.start = toks[1].start
                           /\ t.ratio = N
                           /\ Len(t.notes) = (IF N < k THEN N ELSE k)
                    /\ (DiagsOf("TupletNoteMismatch") # {}) <=> (1 <= k /\ k < N)
                    /\ (DiagsOf("EmptyTuplet") # {}) <=> (k = 0)

-----------------------------------------------------------------------------
(* C24: the two parsers on clean input *)

Projected == "cst_to_ast" \in done

\* what the claim compares of a note: pitch, octave, accidental, duration
NoteShape(n) ==
    [type |-> "Note", pitch |-> n.pitch, octave |-> n.octave,
     accidental |-> n.accidental, duration |-> n.duration]

NoteShapes(notes) == [i \in 1..Len(notes) |-> NoteShape(notes[i])]

RECURSIVE ElementShapes(_)
\* the body elements without their ranges
ElementShapes(elements) ==
    [i \in 1..Len(elements) |->
        LET e == elements[i]
        IN  CASE e.type = "Note" -> NoteShape(e)
              [] e.type = "Rest" ->
                    [type |-> "Rest", multi_measure |-> e.multi_measure,
                     duration |-> e.duration]
              [] e.type = "Chord" ->
                    [type |-> "Chord", notes |-> NoteShapes(e.notes),
                     duration |-> e.duration]
              [] e.type = "BarLine" -> [type |-> "BarLine", kind |-> e.kind]
              [] e.type = "Tuplet" ->
                    [type |-> "Tuplet", ratio |-> e.ratio,
                     notes |-> NoteShapes(e.notes)]
              [] e.type = "GraceNotes" ->
                    [type |-> "GraceNotes", notes |-> NoteShapes(e.notes)]
              [] e.type = "Slur" ->
                    [type |-> "Slur", elements |-> ElementShapes(e.elements)]
              [] e.type = "BrokenRhythm" ->
                    [type |-> "BrokenRhythm", dotted_first |-> e.dotted_first,
                     count |-> e.count]
              [] e.type = "InlineField" ->
                    [type |-> "InlineField", label |-> e.label, value |-> e.value]
              [] OTHER -> [type |-> e.type]]

\* the header fields without their ranges
FieldShapes(fields) ==
    [i \in 1..Len(fields) |-> [kind |-> fields[i].kind, value |-> fields[i].value]]

TuneShape(tune) ==
    [fields |-> FieldShapes(tune.header.fields),
     elements |-> ElementShapes(tune.body.elements)]

\* C24: on a source for which parse_with_diagnostics reports no diagnostic,
\* the tree projected from the lossless tree has the same header fields and
\* the same body elements, with the same notes, as the tree of the diagnostic
\* parser
C24_ParsersAgree ==
    (Parsed /\ Projected /\ ~outcome.panicked /\ ~projected.panicked
        /\ outcome.diags = <<>>)
        => TuneShape(projected.tune) = TuneShape(outcome.tune)


-----------------------------------------------------------------------------
(* C30: the octave of a note followed by k marks *)

\* base + k for octave-up marks and base - k for octave-down marks, of a
\* source that is one note letter followed by k marks of one kind
MarkedOctave ==
    LET base == PitchFromChar(source[1]).val.octave
        k == Len(source) - 1
    IN  IF k > 0 /\ source[2] = "," THEN base - k ELSE base + k

\* the one note of a tree is stored with the octave o
StoresOctave(tune, o) ==
    /\ Len(tune.body.elements) = 1
    /\ tune.body.elements[1].type = "Note"
    /\ tune.body.elements[1].octave = o

\* C30: for a note followed by k octave-up marks, or k octave-down marks,
\* the diagnostic parser and the projection of the lossless tree both return
\* without aborting and store the octave base + k, respectively base - k
C30_OctaveInRange ==
    /\ Parsed => (~outcome.panicked /\ StoresOctave(outcome.tune, MarkedOctave))
    /\ Projected =>
           (~projected.panicked /\ StoresOctave(projected.tune, MarkedOctave))

\* the projection alone aborts or stores another octave than base + k
C30_ProjectorWrong ==
    Projected /\ (projected.panicked \/ ~StoresOctave(projected.tune, MarkedOctave))

-----------------------------------------------------------------------------
(* C25: trivia attachment *)

TokenizedCst == "tokenize_cst" \in done

\* the range of a token or of a piece of trivia
RangeOf(t) == [start |-> t.start, end |-> t.end]

RangesOf(ts) == [i \in 1..Len(ts) |-> RangeOf(ts[i])]

RECURSIVE PiecesOf(_)
\* the ranges of the tokens of tokenize_cst with their trivia, in order:
\* leading trivia, the token, trailing trivia
PiecesOf(ts) ==
    IF ts = <<>> THEN <<>>
    ELSE RangesOf(Head(ts).leading) \o <<RangeOf(Head(ts))>>
             \o RangesOf(Head(ts).trailing) \o PiecesOf(Tail(ts))

\* the tokens of the lexer before Eof
FlatTokens(toks) == SelectSeq(toks, LAMBDA t : t.kind # "Eof")

\* the indexes of the significant tokens among toks, in order
Significant(toks) == {i \in 1..Len(toks) : ~TokenKindIsTrivia(toks[i].kind)}

\* the last index of the trailing trivia of the token at index p: the run of
\* whitespace and comments after it on its line, with the newline that ends it
TrailingEnd(toks, p) ==
    LET q == MinOf({j \in (p + 1)..(Len(toks) + 1) :
                       j = Len(toks) + 1 \/ toks[j].kind \notin {"Whitespace", "Comment"}})
    IN  IF q <= Len(toks) /\ toks[q].kind = "Newline" THEN q ELSE q - 1

\* the k-th token of tokenize_cst is the significant token at index p with
\* the trailing trivia the claim gives it
TrailingAsStated(toks, ts, k, p) ==
    /\ RangeOf(ts[k]) = RangeOf(toks[p])
    /\ RangesOf(ts[k].trailing) =
           IF p = CHOOSE m \in Significant(toks) : \A n \in Significant(toks) : n <= m
           THEN RangesOf(SubSeq(toks, p + 1, Len(toks)))
           ELSE RangesOf(SubSeq(toks, p + 1, TrailingEnd(toks, p)))

\* C25: every trivia token of the source is attached to exactly one
\* significant token, in source order, so that the tokens with their trivia
\* concatenate to the input; a token's trailing trivia is the whitespace and
\* comment run after it on its line up to and including the first newline,
\* and the last token's trailing trivia also holds all trivia left over
C25_TriviaAttachment ==
    TokenizedCst =>
        LET toks == FlatTokens(SourceTokens)
            sig == Significant(toks)
        IN  /\ PiecesOf(cstTokens) = RangesOf(toks)
            /\ Len(cstTokens) = Cardinality(sig)
            /\ \A p \in sig :
                   TrailingAsStated(toks, cstTokens,
                                    Cardinality({m \in sig : m <= p}), p)

\* the same for the sources that hold a significant token
C25_WithSignificantToken ==
    (TokenizedCst /\ Significant(FlatTokens(SourceTokens)) # {})
        => C25_TriviaAttachment

-----------------------------------------------------------------------------
(* C26: the terminals of the lossless tree *)

ParsedCst == "parse_cst" \in done

RECURSIVE Terminals(_)
\* the tokens of a list of children, depth-first, left to right
Terminals(children) ==
    IF children = <<>> THEN <<>>
    ELSE (IF Head(children).isNode THEN Terminals(Head(children).children)
          ELSE <<Head(children).tok>>) \o Terminals(Tail(children))

\* C26: the terminals of the tree parse_cst returns, read depth-first from
\* left to right, are the tokens tokenize_cst returns, in the same order,
\* for every source, well-formed or malformed
C26_TerminalsAreTokens ==
    (ParsedCst /\ TokenizedCst) => Terminals(cst.children) = cstTokens

\* both have returned on a source the diagnostic parser finds malformed, and
\* the tree has an inline field or a chord with a token inside it
C26_Witness ==
    /\ ParsedCst /\ TokenizedCst
    /\ Len(cstTokens) >= 3
    /\ \E i \in 1..Len(cst.children) :
           /\ cst.children[i].isNode
           /\ \E j \in 1..Len(cst.children[i].children) :
                  /\ cst.children[i].children[j].isNode
                  /\ cst.children[i].children[j].kind \in {"INLINE_FIELD", "CHORD"}
                  /\ Len(cst.children[i].children[j].children) >= 2
    /\ parse_with_diagnostics(source, FALSE).st.diags # <<>>

-----------------------------------------------------------------------------
(* C27: what formatting with the default configuration keeps *)

\* the significant tokens of a text, in order
SignificantTokens(s) ==
    SelectSeq(tokenize(s),
              LAMBDA t : t.kind # "Eof" /\ ~TokenKindIsTrivia(t.kind))

\* the texts of the comments of a text, in order, without trailing spaces
CommentTexts(s) ==
    LET cs == SelectSeq(tokenize(s), LAMBDA t : t.kind = "Comment")
    IN  [i \in 1..Len(cs) |-> TrimEnd(Slice(s, cs[i].start, cs[i].end))]

\* a line break lies between the k-th significant token of s and the next
BreakAfter(s, k) ==
    LET sig == SignificantTokens(s)
    IN  \E i \in (sig[k].end + 1)..sig[k + 1].start : s[i] = "\n"

\* C27: formatting with the default configuration keeps every comment of
\* the music body and every line break between two of its tokens: tokens on
\* different source lines are on different lines of the output, also when
\* the line break or the comment directly follows a bar line
C27_LayoutKept ==
    (Formatted /\ config = FormatterConfigDefault) =>
        /\ CommentTexts(formatted) = CommentTexts(source)
        /\ Len(SignificantTokens(formatted)) = Len(SignificantTokens(source))
        /\ \A k \in 1..(Len(SignificantTokens(source)) - 1) :
               BreakAfter(source, k) => BreakAfter(formatted, k)

\* the same for the sources that hold a significant token and no bar line
C27_LayoutKeptAfterNotes ==
    (Formatted /\ config = FormatterConfigDefault
        /\ SignificantTokens(source) # <<>>
        /\ \A i \in 1..Len(source) : source[i] # "|") =>
        /\ CommentTexts(formatted) = CommentTexts(source)
        /\ Len(SignificantTokens(formatted)) = Len(SignificantTokens(source))
        /\ \A k \in 1..(Len(SignificantTokens(source)) - 1) :
               BreakAfter(source, k) => BreakAfter(formatted, k)

-----------------------------------------------------------------------------
(* C28: the intersection of two ranges *)

Intersected == "intersect" \in done

\* the offsets both ranges contain
SharedOffsets ==
    {o \in 0..MaxOffset : contains(ranges.a, o) /\ contains(ranges.b, o)}

\* C28: intersect returns None exactly when the two half-open ranges share no
\* offset, and otherwise the range of precisely the offsets both contain
C28_Intersect ==
    Intersected =>
        /\ ~overlap.some <=> SharedOffsets = {}
        /\ overlap.some =>
               {o \in 0..MaxOffset : contains(overlap.val, o)} = SharedOffsets

\* whenever intersect returns a range, it holds precisely the offsets both
\* ranges contain
C28_SomeIsCommonPart ==
    (Intersected /\ overlap.some) =>
        {o \in 0..MaxOffset : contains(overlap.val, o)} = SharedOffsets

-----------------------------------------------------------------------------
(* C29: the counts of a DiagnosticBag *)

\* the number of stored diagnostics of a severity
StoredOf(severity) ==
    Cardinality({i \in 1..Len(bag.diagnostics) :
                    bag.diagnostics[i].severity = severity})

\* C29: after any sequence of report and clear, error_count and
\* warning_count are the numbers of stored diagnostics of severity error and
\* warning, has_errors is true exactly when error_count > 0, and the stored
\* diagnostics are those reported since the last clear, in the order they
\* were reported
C29_BagConsistent ==
    /\ bag.error_count = StoredOf("Error")
    /\ bag.warning_count = StoredOf("Warning")
    /\ has_errors(bag) <=> bag.error_count > 0
    /\ has_errors(bag) <=> StoredOf("Error") > 0
    /\ bag.diagnostics = reported

\* a bag that took diagnostics, was cleared and then took a warning, an
\* information and an error
C29_Witness ==
    /\ "clear" \in done
    /\ Len(bag.diagnostics) = MaxReports
    /\ Len(reported) = MaxReports
    /\ bag.diagnostics[MaxReports - 2].severity = "Warning"
    /\ bag.diagnostics[MaxReports - 1].severity = "Info"
    /\ bag.diagnostics[MaxReports].severity = "Error"
    /\ bag.error_count >= 1
=============================================================================
